---------------------------- MODULE Spec2Model ----------------------------
(***************************************************************************)
(* Model of the ingestion-and-normalization pipeline of weirdaxe/ai-ris:   *)
(* URL canonicalization, duplicate detection, the inclusive day-range      *)
(* filter, field-mapping inference and item assembly, the paginated        *)
(* collector, the GDELT rolling aggregator and the pipelines composing     *)
(* them.                                                                   *)
(*                                                                         *)
(* Strings are sequences of tokens.  A token is a run of characters that   *)
(* the code never splits (a word, a date literal) or one delimiter         *)
(* character; the string functions of the code (strip, lower, urlparse,    *)
(* parse_qsl, urlencode, urlunparse, the regular expressions) are          *)
(* modelled on token sequences.  Instants are integer seconds (UTC) since  *)
(* 2024-01-01T00:00:00Z and calendar dates are day ordinals since          *)
(* 2024-01-01 (day 0).                                                     *)
(***************************************************************************)
EXTENDS Integers, Sequences, FiniteSets, TLC

VARIABLES
    \* harness of canonicalize_url: input string and the two applications
    c_pc, c_url, c_once, c_twice,
    \* harness of dedup_rows: input rows and the two applications
    d_pc, d_rows, d_once, d_twice,
    \* harness of cap_by_date: which source file's filter, rows, window, result
    k_pc, k_variant, k_rows, k_start, k_end, k_out,
    \* harness of infer_field_mapping and assemble_items_from_grouped
    i_pc, i_grouped, i_mapping, i_items,
    \* scrape_pages_collect_items: the site (the responses of its first pages
    \* and the response of every later page), the arguments, the locals, and
    \* the history of the pages fetched and of the items each page added
    p_pc, p_site, p_rest, p_start_page, p_max_pages, p_cutoff_date_iso,
    p_mapping, p_selected_rule_names, p_page, collected, seen_urls,
    pages_scraped, has_any_dates, p_fetched, p_added,
    \* gdelt_artlist_rolling: the behaviour of the API and the articles it
    \* holds, the arguments, the locals, the events passed to progress_cb,
    \* the time range of every request, the answer to every request, and the
    \* list returned
    g_pc, g_api, g_store, g_start_d, g_end_d, max_per_call, results,
    cursor_end, batch_idx, g_events, g_calls, g_resps, g_ret,
    \* the "Scrape now" run of pp.py: the window, the mode, the pages the
    \* trained extractors read, the articles of GDELT, and the three lists
    m_pc, m_start_d, m_end_d, m_mode_choice, m_configs, m_arts,
    rows_auto, rows_gdelt, rows_all,
    \* the Dev Tools session of pp.py: the session state, the config saved, the
    \* choices and inference a confirmation was made from, and the mapping
    \* last applied to assemble items
    t_pc, last_grouped, manual_mapping, confirmed_mapping, collected_items,
    final_config, t_confirmed, t_applied,
    \* the two orders of merging two sources (old_files/app.py: run_scrape)
    o_pc, o_a, o_b, o_ab, o_ba, o_each, o_once,
    \* iris to scrape/utils.py: the directory (name to inode), the content of
    \* every inode, per call of atomic_write_json its position, its open file
    \* and its exception, and the position and result of a load_json_safe call
    f_pc, f_dir, f_inodes, f_fd, f_err, r_pc, r_ret,
    \* old_files/app.py scrape_site: the base, the answers of the roots, the
    \* feeds the site serves, the feeds discovered and fetched, the list
    \* returned, and the answer of the listing page, the links, futures, dates
    \* and items of scrape_html_listing
    s_pc, s_base, s_resps, s_site, s_feeds, s_fetched, s_out, s_listing,
    s_links, s_fut, s_pub, s_items,
    \* pp.py set_pagination_for_config called by the sessions of the app: the
    \* position, arguments and loaded dict of every session, the content of
    \* pagination.json, the number of calls made, the entries the completed
    \* calls have set, and whether calls overlapped
    n_pc, n_file, n_args, n_local, n_calls, n_expect, n_overlap

canonVars == <<c_pc, c_url, c_once, c_twice>>
dedupVars == <<d_pc, d_rows, d_once, d_twice>>
capVars   == <<k_pc, k_variant, k_rows, k_start, k_end, k_out>>
inferVars == <<i_pc, i_grouped, i_mapping, i_items>>
collArgs  == <<p_site, p_rest, p_start_page, p_max_pages, p_cutoff_date_iso,
               p_mapping, p_selected_rule_names>>
collVars  == <<p_pc, collArgs, p_page, collected, seen_urls, pages_scraped,
               has_any_dates, p_fetched, p_added>>

gdeltArgs == <<g_api, g_store, g_start_d, g_end_d, max_per_call>>
gdeltVars == <<g_pc, gdeltArgs, results, cursor_end, batch_idx, g_events,
               g_calls, g_resps, g_ret>>
pipeArgs  == <<m_start_d, m_end_d, m_mode_choice, m_configs, m_arts>>
pipeVars  == <<m_pc, pipeArgs, rows_auto, rows_gdelt, rows_all>>

sessVars  == <<t_pc, last_grouped, manual_mapping, confirmed_mapping,
               collected_items, final_config, t_confirmed, t_applied>>

mergeVars == <<o_pc, o_a, o_b, o_ab, o_ba, o_each, o_once>>

fileVars == <<f_pc, f_dir, f_inodes, f_fd, f_err, r_pc, r_ret>>

siteVars == <<s_pc, s_base, s_resps, s_site, s_feeds, s_fetched, s_out,
              s_listing, s_links, s_fut, s_pub, s_items>>

pagVars == <<n_pc, n_file, n_args, n_local, n_calls, n_expect, n_overlap>>

vars == <<canonVars, dedupVars, capVars, inferVars, collVars, gdeltVars,
          pipeVars, sessVars, mergeVars, fileVars, siteVars, pagVars>>

notCanon == <<dedupVars, capVars, inferVars, collVars, gdeltVars, pipeVars,
              sessVars, mergeVars, fileVars, siteVars, pagVars>>
notDedup == <<canonVars, capVars, inferVars, collVars, gdeltVars, pipeVars,
              sessVars, mergeVars, fileVars, siteVars, pagVars>>
notCap == <<canonVars, dedupVars, inferVars, collVars, gdeltVars, pipeVars,
            sessVars, mergeVars, fileVars, siteVars, pagVars>>
notInfer == <<canonVars, dedupVars, capVars, collVars, gdeltVars, pipeVars,
              sessVars, mergeVars, fileVars, siteVars, pagVars>>
notColl == <<canonVars, dedupVars, capVars, inferVars, gdeltVars, pipeVars,
             sessVars, mergeVars, fileVars, siteVars, pagVars>>
notGdelt == <<canonVars, dedupVars, capVars, inferVars, collVars, pipeVars,
              sessVars, mergeVars, fileVars, siteVars, pagVars>>
notPipe == <<canonVars, dedupVars, capVars, inferVars, collVars, gdeltVars,
             sessVars, mergeVars, fileVars, siteVars, pagVars>>
notSess == <<canonVars, dedupVars, capVars, inferVars, collVars, gdeltVars,
             pipeVars, mergeVars, fileVars, siteVars, pagVars>>
notMerge == <<canonVars, dedupVars, capVars, inferVars, collVars, gdeltVars,
              pipeVars, sessVars, fileVars, siteVars, pagVars>>
notFile == <<canonVars, dedupVars, capVars, inferVars, collVars, gdeltVars,
             pipeVars, sessVars, mergeVars, siteVars, pagVars>>
notSite == <<canonVars, dedupVars, capVars, inferVars, collVars, gdeltVars,
             pipeVars, sessVars, mergeVars, fileVars, pagVars>>
notPag == <<canonVars, dedupVars, capVars, inferVars, collVars, gdeltVars,
            pipeVars, sessVars, mergeVars, fileVars, siteVars>>

\* Python's None where a string is expected: a reserved one-token string
None == <<"<None>">>

(***************************************************************************)
(* Evaluation order: Python binds a local variable or a parameter to a     *)
(* value once.  Eval1..Eval4 apply an operator to the values of their      *)
(* arguments.                                                              *)
(***************************************************************************)
Eval1(F(_), a) == CHOOSE r \in {F(x) : x \in {a}} : TRUE
Eval2(F(_, _), a, b) == CHOOSE r \in {F(x, y) : x \in {a}, y \in {b}} : TRUE
Eval3(F(_, _, _), a, b, c) ==
    CHOOSE r \in {F(x, y, z) : x \in {a}, y \in {b}, z \in {c}} : TRUE
Eval4(F(_, _, _, _), a, b, c, d) ==
    CHOOSE r \in {F(w, x, y, z) : w \in {a}, x \in {b}, y \in {c}, z \in {d}} : TRUE

(***************************************************************************)
(* Generic sequence helpers                                                *)
(***************************************************************************)
Range(s) == {s[i] : i \in DOMAIN s}

Tail_n(s0, n0) == Eval2(LAMBDA s, n : SubSeq(s, n + 1, Len(s)), s0, n0)   \* s[n:]
Head_n(s, n) == SubSeq(s, 1, n)                                          \* s[:n]

\* s.find(d): index of the first token of s that is in D, 0 when there is none
FindIn(s0, D0) ==
    Eval2(LAMBDA s, D :
        IF \E i \in DOMAIN s : s[i] \in D
        THEN CHOOSE i \in DOMAIN s : s[i] \in D /\ \A j \in 1..(i - 1) : s[j] \notin D
        ELSE 0,
      s0, D0)

\* s.rfind(d): index of the last token d of s, 0 when there is none
RFind(s0, d0) ==
    Eval2(LAMBDA s, d :
        IF \E i \in DOMAIN s : s[i] = d
        THEN CHOOSE i \in DOMAIN s : s[i] = d /\ \A j \in (i + 1)..Len(s) : s[j] # d
        ELSE 0,
      s0, d0)

\* s.find(d, from): index of the first token d at a position >= from, 0 if none
FindFrom(s0, d0, from0) ==
    Eval3(LAMBDA s, d, from :
        IF \E i \in from..Len(s) : s[i] = d
        THEN CHOOSE i \in from..Len(s) : s[i] = d /\ \A j \in from..(i - 1) : s[j] # d
        ELSE 0,
      s0, d0, from0)

RECURSIVE Split(_, _)
\* s.split(d): the pieces of s between the occurrences of token d
Split(s0, d0) ==
    Eval2(LAMBDA s, d :
        IF FindIn(s, {d}) = 0 THEN <<s>>
        ELSE <<Head_n(s, FindIn(s, {d}) - 1)>> \o Split(Tail_n(s, FindIn(s, {d})), d),
      s0, d0)

RECURSIVE Join(_, _)
\* d.join(parts)
Join(parts0, d0) ==
    Eval2(LAMBDA parts, d :
        IF parts = <<>> THEN <<>>
        ELSE IF Len(parts) = 1 THEN parts[1]
        ELSE parts[1] \o d \o Join(Tail(parts), d),
      parts0, d0)

(***************************************************************************)
(* str.strip(), str.rstrip("/"), str.lower()                               *)
(***************************************************************************)
Whitespace == {" "}

lstrip(s0, D0) ==
    Eval2(LAMBDA s, D :
        IF \A i \in DOMAIN s : s[i] \in D THEN <<>>
        ELSE SubSeq(s, CHOOSE i \in DOMAIN s :
                          s[i] \notin D /\ \A j \in 1..(i - 1) : s[j] \in D, Len(s)),
      s0, D0)

rstrip(s0, D0) ==
    Eval2(LAMBDA s, D :
        IF \A i \in DOMAIN s : s[i] \in D THEN <<>>
        ELSE SubSeq(s, 1, CHOOSE i \in DOMAIN s :
                             s[i] \notin D /\ \A j \in (i + 1)..Len(s) : s[j] \in D),
      s0, D0)

strip(s) == rstrip(lstrip(s, Whitespace), Whitespace)

LowerTok(t) ==
    CASE t = "X"          -> "x"
      [] t = "EX.com"     -> "ex.com"
      [] t = "UTM_Source" -> "utm_source"
      [] t = "Title"      -> "title"
      [] t = "One"        -> "one"
      [] t = "Two"        -> "two"
      [] t = "HTTPS"      -> "https"
      [] OTHER            -> t

lower(s0) ==
    Eval1(LAMBDA s :
        [i \in DOMAIN s |-> LowerTok(s[i])],
      s0)

(***************************************************************************)
(* urllib.parse as called by canonicalize_url (CPython 3.11)               *)
(***************************************************************************)
\* tokens made only of scheme characters (letters, digits, "+", "-", ".")
SchemeCharToks == {"http", "https", "ftp", "ex.com", "EX.com", "x", "X", "y",
                   "z", "f", "1", "+"}
\* tokens whose first character is an ASCII letter
AlphaStartToks == {"http", "https", "ftp", "ex.com", "EX.com", "x", "X", "y",
                   "z", "f", "utm_source", "UTM_Source"}

\* urlsplit: url[:i] is the scheme when it is made of scheme characters
SplitScheme(url0) ==
    Eval1(LAMBDA url :
        LET i == FindIn(url, {":"})
        IN  IF /\ i > 1
               /\ url[1] \in AlphaStartToks
               /\ \A j \in 1..(i - 1) : url[j] \in SchemeCharToks
            THEN [scheme |-> lower(Head_n(url, i - 1)), url |-> Tail_n(url, i)]
            ELSE [scheme |-> <<>>, url |-> url],
      url0)

\* urlsplit: after "//" the netloc runs up to the first "/", "?" or "#"
SplitNetloc(r0) ==
    Eval1(LAMBDA r :
        IF Len(r.url) >= 2 /\ r.url[1] = "/" /\ r.url[2] = "/"
        THEN LET d     == FindFrom(r.url, "/", 3)
                 q     == FindFrom(r.url, "?", 3)
                 h     == FindFrom(r.url, "#", 3)
                 ds    == {x \in {d, q, h} : x # 0}
                 delim == IF ds = {} THEN Len(r.url) + 1
                          ELSE CHOOSE x \in ds : \A y \in ds : x <= y
             IN  [scheme |-> r.scheme, netloc |-> SubSeq(r.url, 3, delim - 1),
                  url |-> Tail_n(r.url, delim - 1)]
        ELSE [scheme |-> r.scheme, netloc |-> <<>>, url |-> r.url],
      r0)

\* urlsplit: url.split("#", 1)
SplitFragment(r0) ==
    Eval1(LAMBDA r :
        LET h == FindIn(r.url, {"#"})
        IN  [scheme |-> r.scheme, netloc |-> r.netloc,
             fragment |-> IF h = 0 THEN <<>> ELSE Tail_n(r.url, h),
             url |-> IF h = 0 THEN r.url ELSE Head_n(r.url, h - 1)],
      r0)

\* urlsplit: url.split("?", 1)
SplitQuery(r0) ==
    Eval1(LAMBDA r :
        LET q == FindIn(r.url, {"?"})
        IN  [scheme |-> r.scheme, netloc |-> r.netloc, fragment |-> r.fragment,
             query |-> IF q = 0 THEN <<>> ELSE Tail_n(r.url, q),
             url |-> IF q = 0 THEN r.url ELSE Head_n(r.url, q - 1)],
      r0)

\* urlparse: _splitparams (every scheme of the model is in uses_params)
SplitParams(r0) ==
    Eval1(LAMBDA r :
        LET sl   == RFind(r.url, "/")
            semi == IF sl > 0 THEN FindFrom(r.url, ";", sl) ELSE FindIn(r.url, {";"})
        IN  [scheme |-> r.scheme, netloc |-> r.netloc,
             path |-> IF semi = 0 THEN r.url ELSE Head_n(r.url, semi - 1),
             params |-> IF semi = 0 THEN <<>> ELSE Tail_n(r.url, semi),
             query |-> r.query, fragment |-> r.fragment],
      r0)

\* the six components of urlparse(url)
urlparse(url) ==
    SplitParams(SplitQuery(SplitFragment(SplitNetloc(SplitScheme(url)))))

\* unquote(s.replace("+", " ")) on one token
UnquoteTok(t) ==
    CASE t = "+"   -> " "
      [] t = "%20" -> " "
      [] t = "%2F" -> "/"
      [] t = "%3A" -> ":"
      [] t = "%3B" -> ";"
      [] t = "%3D" -> "="
      [] t = "%3F" -> "?"
      [] t = "%26" -> "&"
      [] t = "%2B" -> "+"
      [] OTHER     -> t

unquote_plus(s0) ==
    Eval1(LAMBDA s :
        [i \in DOMAIN s |-> UnquoteTok(s[i])],
      s0)

\* quote_plus on one token: letters, digits and "_.-~" are safe
QuoteTok(t) ==
    CASE t = " " -> "+"
      [] t = "/" -> "%2F"
      [] t = ":" -> "%3A"
      [] t = ";" -> "%3B"
      [] t = "=" -> "%3D"
      [] t = "?" -> "%3F"
      [] t = "&" -> "%26"
      [] t = "+" -> "%2B"
      [] OTHER   -> t

quote_plus(s0) ==
    Eval1(LAMBDA s :
        [i \in DOMAIN s |-> QuoteTok(s[i])],
      s0)

\* one name=value piece of parse_qsl with keep_blank_values=False: the pair,
\* or nothing for an empty piece, a piece without "=" or a blank value
ParsePair(nv0) ==
    Eval1(LAMBDA nv :
        LET e == FindIn(nv, {"="})
        IN  IF nv = <<>> \/ e = 0 \/ e = Len(nv) THEN <<>>
            ELSE <<[k |-> unquote_plus(Head_n(nv, e - 1)),
                    v |-> unquote_plus(Tail_n(nv, e))]>>,
      nv0)

RECURSIVE ParsePairs(_)
\* the loop of parse_qsl over qs.split("&")
ParsePairs(pairs0) ==
    Eval1(LAMBDA pairs :
        IF pairs = <<>> THEN <<>> ELSE ParsePair(pairs[1]) \o ParsePairs(Tail(pairs)),
      pairs0)

parse_qsl(qs) == IF qs = <<>> THEN <<>> ELSE ParsePairs(Split(qs, "&"))

urlencode(q0) ==
    Eval1(LAMBDA q :
        Join([i \in DOMAIN q |-> quote_plus(q[i].k) \o <<"=">> \o quote_plus(q[i].v)],
             <<"&">>),
      q0)

\* urlunparse((scheme, netloc, path, "", "", "")): no params, query, fragment
urlunparse(scheme0, netloc0, path0) ==
    Eval3(LAMBDA scheme, netloc, path :
        LET pfx  == Len(path) >= 2 /\ path[1] = "/" /\ path[2] = "/"
            url1 == IF netloc # <<>> \/ (scheme # <<>> /\ ~pfx)
                    THEN <<"/", "/">> \o netloc
                            \o (IF path # <<>> /\ path[1] # "/" THEN <<"/">> ELSE <<>>)
                            \o path
                    ELSE path
        IN  IF scheme # <<>> THEN scheme \o <<":">> \o url1 ELSE url1,
      scheme0, netloc0, path0)

TRACKING == {<<"utm_source">>, <<"utm_medium">>, <<"utm_campaign">>,
             <<"utm_term">>, <<"utm_content">>, <<"gclid">>, <<"fbclid">>}

\* canonicalize_url after u = urlparse(url.strip())
canonicalize_parsed(u) ==
    LET scheme == <<"https">>
        netloc == lower(u.netloc)
        path   == IF u.path = <<>> THEN <<"/">> ELSE u.path
        q      == SelectSeq(parse_qsl(u.query), LAMBDA p : lower(p.k) \notin TRACKING)
        query  == urlencode(q)
        p1     == rstrip(path, {"/"})
        norm   == urlunparse(scheme, netloc, IF p1 = <<>> THEN <<"/">> ELSE p1)
    IN  IF query # <<>> THEN norm \o <<"?">> \o query ELSE norm

canonicalize_url(url) == Eval1(canonicalize_parsed, urlparse(strip(url)))

(***************************************************************************)
(* Inputs of the canonicalizer harness                                     *)
(***************************************************************************)
UrlSchemes == {<<"http", ":", "/", "/">>, <<"https", ":", "/", "/">>,
               <<"ftp", ":", "/", "/">>, <<"/", "/">>}
UrlHosts   == {<<"ex.com">>, <<"EX.com">>}
UrlPaths   == {<<>>, <<"/">>, <<"/", "x">>, <<"/", "x", "/">>,
               <<"/", "x", "/", "/">>, <<"/", "x", ";", "/">>,
               <<"/", "x", " ", "/">>, <<"/", "x", ";", "y">>}
UrlQueries == {<<>>,
               <<"?", "utm_source", "=", "z">>,
               <<"?", "y", "=", "1">>,
               <<"?", "utm_source", "=", "z", "&", "y", "=", "1">>,
               <<"?", "UTM_Source", "=", "z", "&", "y", "=", "%20">>,
               <<"?", "y", "=", "&", "z">>,
               <<"?", "y", "=", "x", "+", "z">>}
UrlFrags   == {<<>>, <<"#", "f">>}

UrlInputs ==
    {s \o h \o p \o q \o f :
        s \in UrlSchemes, h \in UrlHosts, p \in UrlPaths, q \in UrlQueries,
        f \in UrlFrags}

(***************************************************************************)
(* Rows (article records) and the deduplicator                             *)
(***************************************************************************)
\* the string that dedup_rows hashes: title.strip().lower() + "|" + url
row_key_nolower(r) == strip(r.title) \o <<"|">> \o r.url

row_key(r) == lower(strip(r.title)) \o <<"|">> \o r.url

\* an exception that leaves a function, in place of the list it returns
Raises(exc) == <<[raised |-> exc]>>
IsRaised(v) == Len(v) = 1 /\ "raised" \in DOMAIN v[1]

\* the exception the key expression raises on row r, or "" when it raises
\* none: None has no strip(), and a str is not concatenated with None
key_raises_never(r) == ""

key_raises(r) ==
    IF r.title = None THEN "AttributeError"
    ELSE IF r.url = None THEN "TypeError"
    ELSE ""

RECURSIVE dedup_loop(_, _, _)
dedup_iter(r, key, rest, seen, out) ==
    IF key \notin seen
    THEN dedup_loop(rest, seen \cup {key}, Append(out, r))
    ELSE dedup_loop(rest, seen, out)
\* the for loop of dedup_rows: seen is the set of keys, out the kept rows
dedup_loop(rows0, seen0, out0) ==
    Eval3(LAMBDA rows, seen, out :
        IF rows = <<>> THEN out
        ELSE IF key_raises(rows[1]) # "" THEN Raises(key_raises(rows[1]))
        ELSE dedup_iter(rows[1], Eval1(row_key, rows[1]), Tail(rows), seen, out),
      rows0, seen0, out0)

dedup_rows_skipfirst(rows) ==
    dedup_loop(IF rows = <<>> THEN rows ELSE Tail(rows), {}, <<>>)

dedup_rows(rows) == dedup_loop(rows, {}, <<>>)

(***************************************************************************)
(* Time: the reference timezone and the day-range filter                   *)
(***************************************************************************)
SecondsPerDay  == 24 * 60 * 60
SecondsPerHour == 60 * 60

\* Europe/London in 2024: BST (UTC+1) from 31 March 01:00 UTC (day 90)
\* to 27 October 01:00 UTC (day 300), GMT otherwise
BstStartDay == 31 + 29 + 30
BstEndDay   == BstStartDay + 30 * 7
BstStart    == BstStartDay * SecondsPerDay + SecondsPerHour
BstEnd      == BstEndDay * SecondsPerDay + SecondsPerHour

\* TZ.utcoffset at the UTC instant t
UtcOffset(t) == IF BstStart <= t /\ t < BstEnd THEN SecondsPerHour ELSE 0

\* dt.astimezone(TZ).date()
LocalDate(t) == (t + UtcOffset(t)) \div SecondsPerDay

\* dt.astimezone(dt.timezone.utc).date(): the mutant that forgets the timezone
UtcDate(t) == t \div SecondsPerDay

\* datetime.combine(d, time(h, m, s, tzinfo=TZ)).astimezone(utc), for wall
\* times that exist once (midnight and 23:59:59 always do in London)
LocalToUtc(d, secs) ==
    LET wall == d * SecondsPerDay + secs
    IN  CHOOSE t \in {wall - SecondsPerHour, wall} : t + UtcOffset(t) = wall

\* The values of a row's published_utc: None, a datetime, or a string.
\* A datetime holds t, the instant it denotes when a naive value is read as
\* UTC (as every caller does), and tz, one of "utc", "naive", "+01:00".
NoPub      == [kind |-> "none"]
Dt(t, tz)  == [kind |-> "dt", t |-> t, tz |-> tz]
StrPub(s)  == [kind |-> "str", s |-> s]

\* the decimal digit tokens and their values
Digits == <<"0", "1", "2", "3", "4", "5", "6", "7", "8", "9">>
DigitVal(tok) == (CHOOSE i \in DOMAIN Digits : Digits[i] = tok) - 1

\* 2024-03-05, the day of the GDELT seendate strings of the model
March5 == 31 + 29 + 4

\* dateutil's parser.parse on the timestamp strings of the model; a GDELT
\* seendate "20240305T00000<digit>Z" is the tokens "20240305T00000", digit, "Z"
dateparser_parse(s) ==
    CASE s = <<"2024-03-31T23:00:00Z">> ->
            Dt((BstStartDay + 1) * SecondsPerDay - SecondsPerHour, "utc")
      [] s = <<"2024-03-31 22:59:59">> ->
            Dt((BstStartDay + 1) * SecondsPerDay - SecondsPerHour - 1, "naive")
      [] s = <<"20240304T235959Z">> ->
            Dt(March5 * SecondsPerDay - 1, "utc")
      [] Len(s) = 3 /\ s[1] = "20240305T00000" /\ s[3] = "Z" ->
            Dt(March5 * SecondsPerDay + DigitVal(s[2]), "utc")
      [] OTHER -> NoPub          \* ParserError, caught

parse_any_datetime(value) ==
    IF value.kind = "none" THEN NoPub
    ELSE IF value.kind = "dt" THEN value
    ELSE dateparser_parse(value.s)

within_day_range_utcdate(t, start_d, end_d) ==
    LET d == UtcDate(t) IN start_d <= d /\ d <= end_d

\* within_day_range of the UTC-normalized instant t
within_day_range(t, start_d, end_d) ==
    LET d == LocalDate(t) IN start_d <= d /\ d <= end_d

\* pub.replace(tzinfo=utc) if naive, then .astimezone(utc)
ToUtc(pub) == Dt(pub.t, "utc")

\* the value of pub that cap_by_date tests: a string is parsed first
CapPub(r) ==
    IF r.published_utc.kind = "str" THEN parse_any_datetime(r.published_utc)
    ELSE r.published_utc

\* one iteration of cap_by_date on row r: the rows it appends to capped
cap_row(r, start_d, end_d, keepDateless) ==
    LET pub == CapPub(r)
    IN  IF pub # NoPub
        THEN IF within_day_range(ToUtc(pub).t, start_d, end_d)
             THEN <<[r EXCEPT !.published_utc = ToUtc(pub)]>>
             ELSE <<>>
        ELSE IF keepDateless THEN <<r>> ELSE <<>>

\* the for loop of cap_by_date; keepDateless is the else branch of src/pp.py
RECURSIVE cap_loop(_, _, _, _)
cap_loop(rows0, start_d0, end_d0, keepDateless0) ==
    Eval4(LAMBDA rows, start_d, end_d, keepDateless :
        IF rows = <<>> THEN <<>>
        ELSE cap_row(rows[1], start_d, end_d, keepDateless)
                \o cap_loop(Tail(rows), start_d, end_d, keepDateless),
      rows0, start_d0, end_d0, keepDateless0)

\* src/pp.py: rows without a date are included
cap_by_date(rows, start_d, end_d) == cap_loop(rows, start_d, end_d, TRUE)

cap_by_date_old_keepdateless(rows, start_d, end_d) ==
    cap_loop(rows, start_d, end_d, TRUE)

\* src/old_files/app.py, src/old_files/utils.py: rows without a date are dropped
cap_by_date_old(rows, start_d, end_d) == cap_loop(rows, start_d, end_d, FALSE)

(***************************************************************************)
(* scraper_utils.py: looks_like_url, parse_date_string                     *)
(***************************************************************************)
\* len(s): the characters of the tokens of s
RECURSIVE CharLen(_)
CharLen(s0) ==
    Eval1(LAMBDA s :
        IF s = <<>> THEN 0 ELSE Len(s[1]) + CharLen(Tail(s)),
      s0)

\* URL_RE = ^https?:// with re.I, searched in s.strip()
looks_like_url(s) ==
    Eval1(LAMBDA t :
        /\ Len(t) >= 4
        /\ LowerTok(t[1]) \in {"http", "https"}
        /\ t[2] = ":" /\ t[3] = "/" /\ t[4] = "/",
      strip(s))

\* tokens that ISO_DATE_RE (\d{4}-\d{2}-\d{2}) matches
IsoLikeToks == {"2024-01-01", "2024-01-02", "2024-02-20", "2024-03-01",
                "2024-03-04", "2024-03-05", "2024-03-10", "2024-13-01"}
\* ... and that strptime(.., "%Y-%m-%d") accepts
IsoValidToks == IsoLikeToks \ {"2024-13-01"}
\* tokens that \d{1,2}[./]\d{1,2}[./]\d{2,4} matches
DmyLikeToks == {"20.02.2024", "05/03/2024", "5/6/24"}
\* tokens that [A-Za-z]{3,9} \d{1,2}, \d{4} matches
TextMonthToks == {"Feb 20, 2024"}

\* datetime.strptime(tok, fmt).date().isoformat() for the first format of
\* COMMON_DATE_FORMATS that accepts the one-token string, None when none does
StrptimeCommonTok(tok) ==
    CASE tok \in IsoValidToks  -> <<tok>>             \* %Y-%m-%d
      [] tok = "20.02.2024"    -> <<"2024-02-20">>    \* %d.%m.%Y
      [] tok = "05/03/2024"    -> <<"2024-03-05">>    \* %d/%m/%Y
      [] tok = "Feb 20, 2024"  -> <<"2024-02-20">>    \* %b %d, %Y
      [] OTHER                 -> None

\* the loop over COMMON_DATE_FORMATS on the whole of s_clean
StrptimeCommon(s_clean) ==
    IF Len(s_clean) = 1 THEN StrptimeCommonTok(s_clean[1]) ELSE None

\* the formats tried on the m2 candidate: %d.%m.%Y, %d/%m/%Y, %m/%d/%Y, %d.%m.%y
StrptimeDmyTok(tok) ==
    CASE tok = "20.02.2024" -> <<"2024-02-20">>
      [] tok = "05/03/2024" -> <<"2024-03-05">>
      [] OTHER              -> None

\* %B %d, %Y, then %b %d, %Y, on the m3 candidate
StrptimeTextTok(tok) ==
    CASE tok = "Feb 20, 2024" -> <<"2024-02-20">>
      [] OTHER                -> None

\* the ISO date "YYYY-MM-DD" found in s, None when there is none
parse_date_string(s) ==
    IF s = None \/ s = <<>> THEN None
    ELSE Eval1(LAMBDA s_clean :
            LET m  == FindIn(s_clean, IsoLikeToks)
                m2 == FindIn(s_clean, DmyLikeToks)
                m3 == FindIn(s_clean, TextMonthToks)
            IN  IF m # 0 /\ s_clean[m] \in IsoValidToks THEN <<s_clean[m]>>
                ELSE IF StrptimeCommon(s_clean) # None THEN StrptimeCommon(s_clean)
                ELSE IF m2 # 0 /\ StrptimeDmyTok(s_clean[m2]) # None
                     THEN StrptimeDmyTok(s_clean[m2])
                ELSE IF m3 # 0 THEN StrptimeTextTok(s_clean[m3])
                ELSE None,
          strip(s))

\* datetime.strptime(d, "%Y-%m-%d").date() as a day ordinal
IsoDay(d) ==
    CASE d = <<"2024-01-01">> -> 0
      [] d = <<"2024-01-02">> -> 1
      [] d = <<"2024-02-20">> -> 31 + 19
      [] d = <<"2024-03-01">> -> 31 + 29
      [] d = <<"2024-03-04">> -> 31 + 29 + 3
      [] d = <<"2024-03-05">> -> 31 + 29 + 4
      [] d = <<"2024-03-10">> -> 31 + 29 + 9

(***************************************************************************)
(* scraper_utils.py: infer_field_mapping, assemble_items_from_grouped.     *)
(* A dict is the sequence of its entries in insertion order: grouped is a  *)
(* sequence of [rule, vals], a mapping a sequence of [rule, field].        *)
(***************************************************************************)
RECURSIVE SumLen(_)
SumLen(vals0) ==
    Eval1(LAMBDA vals :
        IF vals = <<>> THEN 0 ELSE CharLen(vals[1]) + SumLen(Tail(vals)),
      vals0)

\* the elements of a set of integers in increasing order
SortedSeq(S) ==
    [k \in 1..Cardinality(S) |-> CHOOSE i \in S : Cardinality({j \in S : j < i}) = k - 1]

\* metrics[rule] of non-empty vals_nonempty: the fractions url_frac, date_frac
\* and avg_len are urls/n, dates/n and len/n
MetricOfNonempty(vals_nonempty) ==
    [n     |-> Len(vals_nonempty),
     urls  |-> Cardinality({i \in DOMAIN vals_nonempty : looks_like_url(vals_nonempty[i])}),
     dates |-> Cardinality({i \in DOMAIN vals_nonempty :
                                parse_date_string(vals_nonempty[i]) # None}),
     len   |-> SumLen(vals_nonempty)]

Metric(vals) ==
    Eval1(LAMBDA vals_nonempty :
        IF vals_nonempty = <<>> THEN [n |-> 1, urls |-> 0, dates |-> 0, len |-> 0]
        ELSE MetricOfNonempty(vals_nonempty),
      SelectSeq(vals, LAMBDA v : v # None /\ strip(v) # <<>>))

\* order of the key (url_frac, avg_len)
UrlKeyLess(a, b) ==
    \/ a.urls * b.n < b.urls * a.n
    \/ a.urls * b.n = b.urls * a.n /\ a.len * b.n < b.len * a.n

\* order of the key (date_frac, -avg_len)
DateKeyLess(a, b) ==
    \/ a.dates * b.n < b.dates * a.n
    \/ a.dates * b.n = b.dates * a.n /\ a.len * b.n > b.len * a.n

\* max(metrics.keys(), key=(url_frac, avg_len)): the first rule that no rule
\* exceeds
FirstMaxUrl(I, ms) ==
    CHOOSE i \in I : \A j \in I : /\ (j < i => UrlKeyLess(ms[j], ms[i]))
                                   /\ (j > i => ~UrlKeyLess(ms[i], ms[j]))

\* max(date_candidates, key=(date_frac, -avg_len))
FirstMaxDate(I, ms) ==
    CHOOSE i \in I : \A j \in I : /\ (j < i => DateKeyLess(ms[j], ms[i]))
                                   /\ (j > i => ~DateKeyLess(ms[i], ms[j]))

\* max() of an empty sequence raises ValueError
InferRaises == <<[rule |-> "<raise>", field |-> "ValueError"]>>

\* "title" if metrics[r]["avg_len"] >= 10 else "other"
remaining_field_ge10(m) == IF m.len >= 10 * m.n THEN "title" ELSE "other"

\* "title" if metrics[r]["avg_len"] > 10 else "other"
remaining_field(m) == IF m.len > 10 * m.n THEN "title" ELSE "other"

\* the mapping built from the metrics and the two candidates (0: no candidate)
infer_mapping(grouped, ms, uc, hasUrl, dc, hasDate) ==
    (IF hasUrl THEN <<[rule |-> grouped[uc].rule, field |-> "url"]>> ELSE <<>>)
    \o (IF hasDate THEN <<[rule |-> grouped[dc].rule, field |-> "date"]>> ELSE <<>>)
    \o [k \in 1..Cardinality(DOMAIN ms \ ((IF hasUrl THEN {uc} ELSE {})
                                           \cup (IF hasDate THEN {dc} ELSE {}))) |->
          LET r == SortedSeq(DOMAIN ms \ ((IF hasUrl THEN {uc} ELSE {})
                                           \cup (IF hasDate THEN {dc} ELSE {})))[k]
          IN  [rule |-> grouped[r].rule, field |-> remaining_field(ms[r])]]

infer_date(grouped0, ms0, uc0, hasUrl0) ==
    Eval4(LAMBDA grouped, ms, uc, hasUrl :
        LET date_candidates == DOMAIN ms \ (IF hasUrl THEN {uc} ELSE {})
            dc == IF date_candidates = {} THEN 0
                  ELSE FirstMaxDate(date_candidates, ms)
        IN  infer_mapping(grouped, ms, uc, hasUrl, dc,
                          dc # 0 /\ 20 * ms[dc].dates > 3 * ms[dc].n),
      grouped0, ms0, uc0, hasUrl0)

infer_url(grouped0, ms0) ==
    Eval2(LAMBDA grouped, ms :
        LET uc == FirstMaxUrl(DOMAIN ms, ms)
        IN  infer_date(grouped, ms, uc, 5 * ms[uc].urls > ms[uc].n),
      grouped0, ms0)

infer_field_mapping(grouped) ==
    IF grouped = <<>> THEN InferRaises
    ELSE infer_url(grouped, [i \in DOMAIN grouped |-> Metric(grouped[i].vals)])

\* grouped.get(rule, [])
GroupGet(grouped, rule) ==
    IF \E i \in DOMAIN grouped : grouped[i].rule = rule
    THEN grouped[CHOOSE i \in DOMAIN grouped : grouped[i].rule = rule].vals
    ELSE <<>>

\* field_lists[field] after the loop over mapping.items(): the last rule mapped
\* to the field decides
FieldList(grouped, mapping, field) ==
    IF \E i \in DOMAIN mapping : mapping[i].field = field
    THEN GroupGet(grouped, mapping[CHOOSE i \in DOMAIN mapping :
                                      /\ mapping[i].field = field
                                      /\ \A j \in DOMAIN mapping :
                                            mapping[j].field = field => j <= i].rule)
    ELSE <<>>

Max3(a, b, c) == CHOOSE m \in {a, b, c} : \A x \in {a, b, c} : x <= m

At(list, i) == IF i <= Len(list) THEN list[i] ELSE None

assemble_item(raw_url, raw_title, raw_date) ==
    [title |-> raw_title,
     url   |-> IF (raw_url = None \/ raw_url = <<>>) /\ raw_title # None
                   /\ looks_like_url(raw_title)
               THEN raw_title ELSE raw_url,
     date  |-> parse_date_string(raw_date)]

assemble_lists(urls, titles, dates) ==
    [i \in 1..Max3(Len(urls), Len(titles), Len(dates)) |->
        assemble_item(At(urls, i), At(titles, i), At(dates, i))]

assemble_items_from_grouped(grouped, mapping) ==
    Eval3(assemble_lists, FieldList(grouped, mapping, "url"),
          FieldList(grouped, mapping, "title"), FieldList(grouped, mapping, "date"))

(***************************************************************************)
(* scraper_utils.py: scrape_pages_collect_items                            *)
(***************************************************************************)
\* page_oldest_date = None, cutoff_dt = None
NoDate == -1

\* cutoff_dt: strptime(cutoff_date_iso, "%Y-%m-%d").date(), None when
\* cutoff_date_iso is empty or does not parse
CutoffDt(cutoff_date_iso) ==
    IF cutoff_date_iso = None \/ cutoff_date_iso = <<>> THEN NoDate
    ELSE IF Len(cutoff_date_iso) = 1 /\ cutoff_date_iso[1] \in IsoValidToks
         THEN IsoDay(cutoff_date_iso)
         ELSE NoDate

\* {k: v for k, v in grouped.items() if k in selected_rule_names}
FilterRules(grouped, selected_rule_names) ==
    IF selected_rule_names = {} THEN grouped
    ELSE SelectSeq(grouped, LAMBDA g : g.rule \in selected_rule_names)

\* mapping or infer_field_mapping(grouped)
ActiveMapping(grouped, mapping) ==
    IF mapping = <<>> THEN infer_field_mapping(grouped) ELSE mapping

\* page_oldest_date after an item with date d, an item without a date
\* counting as the oldest day
OlderOf_undated(page_oldest_date, d) ==
    IF d = None \/ d = <<>> THEN 0
    ELSE IF page_oldest_date = NoDate \/ IsoDay(d) < page_oldest_date THEN IsoDay(d)
    ELSE page_oldest_date

\* page_oldest_date after an item with date d
OlderOf(page_oldest_date, d) ==
    IF d = None \/ d = <<>> THEN page_oldest_date
    ELSE IF page_oldest_date = NoDate \/ IsoDay(d) < page_oldest_date THEN IsoDay(d)
    ELSE page_oldest_date

\* u and u in seen_urls, never
url_seen_never(u, seen) == FALSE

\* u and u in seen_urls
url_seen(u, seen) == u # None /\ u # <<>> /\ u \in seen

\* the loop over the items of one page; st holds collected, seen_urls,
\* has_any_dates and page_oldest_date
RECURSIVE collect_items(_, _)
collect_items(items0, st0) ==
    Eval2(LAMBDA items, st :
        IF items = <<>> THEN st
        ELSE LET it == items[1]
                 u  == it.url
             IN  IF url_seen(u, st.seen_urls)
                 THEN collect_items(Tail(items), st)
                 ELSE collect_items(Tail(items),
                        [collected        |-> Append(st.collected, it),
                         seen_urls        |-> IF u # None /\ u # <<>>
                                              THEN st.seen_urls \cup {u}
                                              ELSE st.seen_urls,
                         has_any_dates    |-> st.has_any_dates
                                                 \/ (it.date # None /\ it.date # <<>>),
                         page_oldest_date |-> OlderOf(st.page_oldest_date, it.date)]),
      items0, st0)

\* cutoff_dt and page_oldest_date and page_oldest_date <= cutoff_dt
cutoff_reached_le(cutoff_dt, page_oldest_date) ==
    cutoff_dt # NoDate /\ page_oldest_date # NoDate /\ page_oldest_date <= cutoff_dt

\* cutoff_dt and page_oldest_date and page_oldest_date < cutoff_dt
cutoff_reached(cutoff_dt, page_oldest_date) ==
    cutoff_dt # NoDate /\ page_oldest_date # NoDate /\ page_oldest_date < cutoff_dt

(***************************************************************************)
(* pp.py: gdelt_artlist_rolling.  An article of the API is a record with   *)
(* seendate (a string, or NoPub when the key is missing), url, title and   *)
(* domain.                                                                 *)
(***************************************************************************)
\* the safety ceiling of the loop: len(results) > 10000 in the code; the model
\* scales the ceiling down to keep the accumulated list small
ResultCeiling == 3

\* the urls of the articles of the model, ending in a digit
GdeltUrl(n) == <<"https", ":", "/", "/", "ex.com", "/", Digits[n + 1]>>

\* canonicalize_url on the urls of the articles, computed once
CanonicalGdeltUrl == [n \in 0..9 |-> canonicalize_url(GdeltUrl(n))]

\* url = canonicalize_url(a.get("url", "")): of None it is None, the
\* AttributeError being caught
ArticleUrl(a) ==
    IF a.url = None THEN None
    ELSE IF \E n \in 0..9 : a.url = GdeltUrl(n)
         THEN CanonicalGdeltUrl[CHOOSE n \in 0..9 : a.url = GdeltUrl(n)]
         ELSE canonicalize_url(a.url)

\* the rows the loop over arts appends to batch
BatchRows(arts) ==
    LET kept == SelectSeq(arts, LAMBDA a : ArticleUrl(a) \notin {None, <<>>})
    IN  [i \in DOMAIN kept |->
            [title         |-> strip(kept[i].title),
             url           |-> ArticleUrl(kept[i]),
             published_utc |-> LET pub == parse_any_datetime(kept[i].seendate)
                               IN  IF pub.kind = "dt" /\ pub.tz = "naive"
                                   THEN Dt(pub.t, "utc") ELSE pub,
             source        |-> kept[i].domain]]

\* [parse_any_datetime(a.get("seendate")) for a in arts if a.get("seendate")]
SeenDates(arts) ==
    LET with == SelectSeq(arts, LAMBDA a : a.seendate.kind = "str" /\ a.seendate.s # <<>>)
    IN  [i \in DOMAIN with |-> parse_any_datetime(with[i].seendate)]

\* min() compares its elements: None among two or more elements raises
\* TypeError
MinRaises(seen) == Len(seen) >= 2 /\ \E i \in DOMAIN seen : seen[i] = NoPub

\* oldest = min(seen or [None]) when min() does not raise
Oldest(seen) ==
    IF seen = <<>> \/ seen[1] = NoPub THEN NoPub
    ELSE seen[CHOOSE i \in DOMAIN seen : \A j \in DOMAIN seen : seen[i].t <= seen[j].t]

\* cursor_end = oldest, without the second
next_cursor_same(oldest) == oldest.t

\* cursor_end = oldest - timedelta(seconds=1)
next_cursor(oldest) == oldest.t - 1

\* len(arts) < max_per_call, never
short_batch_never(arts, n) == FALSE

\* len(arts) < max_per_call
short_batch(arts, n) == Len(arts) < n

\* len(results) > 10000, never
over_ceiling_never(res) == FALSE

\* len(results) > 10000
over_ceiling(res) == Len(res) > ResultCeiling

(***************************************************************************)
(* pp.py: scrape_with_autoscraper_config and the "Scrape now" run.  A      *)
(* config is a record of site_name, mapping, saved_from_rules and grouped, *)
(* what the trained extractor of the config reads on the page of its url.  *)
(***************************************************************************)
\* the loop over collected: source and published_utc are set on the item;
\* an item without a date gets no published_utc, which readers take as None
stamp_item(item, site_name) ==
    [title         |-> item.title,
     url           |-> item.url,
     date          |-> item.date,
     source        |-> site_name,
     published_utc |-> IF item.date = None \/ item.date = <<>> THEN NoPub
                       ELSE Dt(IsoDay(item.date) * SecondsPerDay, "utc")]

\* scrape_with_autoscraper_config(cfg, start_d, end_d) of a config without
\* pagination settings: start_d and end_d are not read
scrape_with_autoscraper_config(cfg, start_d, end_d) ==
    LET items == assemble_items_from_grouped(
                     FilterRules(cfg.grouped, cfg.saved_from_rules), cfg.mapping)
    IN  [i \in DOMAIN items |-> stamp_item(items[i], cfg.site_name)]

\* rows_auto after the loop over configs
RECURSIVE scrape_configs(_, _, _)
scrape_configs(configs, start_d, end_d) ==
    IF configs = <<>> THEN <<>>
    ELSE scrape_with_autoscraper_config(configs[1], start_d, end_d)
             \o scrape_configs(Tail(configs), start_d, end_d)

\* gdelt_artlist_rolling when the API answers the first request with arts,
\* fewer than max_per_call = 250 articles: one batch, cap_by_date, dedup_rows
gdelt_one_batch(arts, start_d, end_d) ==
    dedup_rows(cap_by_date(BatchRows(arts), start_d, end_d))

(***************************************************************************)
(* pp.py: the Dev Tools page.  The mapping widgets, "Confirm mapping",     *)
(* "Preview assembled items", "Collect items" and "Save config".           *)
(***************************************************************************)
\* mapping.get(rule, default)
MappingGet(mapping, rule, default) ==
    IF \E i \in DOMAIN mapping : mapping[i].rule = rule
    THEN mapping[CHOOSE i \in DOMAIN mapping : mapping[i].rule = rule].field
    ELSE default

\* st.session_state.confirmed_mapping = None
NoMapping == <<[rule |-> "<None>", field |-> "<None>"]>>

\* manual_mapping after a run of the script: one selectbox per rule of
\* last_grouped, which shows the choice it held or, when new, "other"
override_widgets(grouped, manual) ==
    [i \in DOMAIN grouped |->
        [rule |-> grouped[i].rule, field |-> MappingGet(manual, grouped[i].rule, "other")]]

\* the selectbox of rule r is set to choice c
set_choice(manual, r, c) ==
    [i \in DOMAIN manual |->
        IF manual[i].rule = r THEN [rule |-> r, field |-> c] ELSE manual[i]]

\* used_mapping: for every rule of inferred the choice, or the inferred field
\* when the choice is "auto"
used_mapping(inferred, manual) ==
    [i \in DOMAIN inferred |->
        LET r      == inferred[i].rule
            choice == MappingGet(manual, r, "other")
        IN  [rule  |-> r,
             field |-> IF choice = "auto" THEN MappingGet(inferred, r, "other")
                       ELSE choice]]

\* the loop over collected of "Collect items": an item whose url was seen
\* is dropped
RECURSIVE dedupe_collected(_, _)
dedupe_collected(items, seen) ==
    IF items = <<>> THEN <<>>
    ELSE LET u == items[1].url
         IN  IF u # None /\ u # <<>> /\ u \in seen
             THEN dedupe_collected(Tail(items), seen)
             ELSE <<items[1]>> \o
                  dedupe_collected(Tail(items),
                      IF u # None /\ u # <<>> THEN seen \cup {u} ELSE seen)

\* final_config["mapping"] of "Save config"
saved_mapping(confirmed, manual) ==
    IF confirmed # NoMapping THEN confirmed ELSE manual

\* what scrape_pages_collect_items reports besides its return value
\* (collected, pages_scraped): the function has no callback, logs nothing and
\* raises nothing when the range of pages is exhausted
collector_events == <<>>

(***************************************************************************)
(* old_files/app.py: the merge of the per-source record lists              *)
(***************************************************************************)
\* a variant that deduplicates the concatenation of two hosts before capping
scrape_local_whole(hosts, start_d, end_d) ==
    cap_by_date_old(dedup_rows(hosts[1] \o hosts[2]), start_d, end_d)

RECURSIVE scrape_local_with_progress(_, _, _)
\* for each host: items = cap_by_date(dedup_rows(items), start_d, end_d);
\* rows_local.extend(items); an exception skips the host
scrape_local_with_progress(hosts, start_d, end_d) ==
    IF hosts = <<>> THEN <<>>
    ELSE (IF IsRaised(dedup_rows(hosts[1])) THEN <<>>
          ELSE cap_by_date_old(dedup_rows(hosts[1]), start_d, end_d))
             \o scrape_local_with_progress(Tail(hosts), start_d, end_d)

\* rows_all = dedup_rows(rows_local + rows_gdelt)
run_scrape(local, gdelt) == dedup_rows(local \o gdelt)

(***************************************************************************)
(* old_files/app.py: discover_feeds, scrape_rss, scrape_html_listing and   *)
(* scrape_site (the same code is in iris to scrape/new_iris_autoscraper.py) *)
(***************************************************************************)
\* s.startswith(p)
StartsWith(s, p) == Len(s) >= Len(p) /\ Head_n(s, Len(p)) = p

\* roots = [base_url], or the https and the http root of a base_url that
\* has no scheme
roots_of(base_url) ==
    IF urlparse(base_url).scheme = <<>>
    THEN << <<"https", ":", "/", "/">> \o base_url,
            <<"http", ":", "/", "/">> \o base_url >>
    ELSE <<base_url>>

\* the common feed endpoints, in the order they are tried
FeedPaths ==
    << <<"/", "rss">>, <<"/", "feed">>, <<"/", "rss.xml">>,
       <<"/", "feed.xml">>, <<"/", "index.xml">>, <<"/", "atom.xml">>,
       <<"/", "feeds">> >>

\* root.rstrip("/") + path for every path
conventional_feeds(root) ==
    [i \in DOMAIN FeedPaths |-> rstrip(root, {"/"}) \o FeedPaths[i]]

\* the type attributes, lowercased, that contain "rss", "atom" or "xml"
FeedTypes == {"application/rss+xml", "application/atom+xml", "text/xml"}

\* the href of a link tag made absolute
resolve_href(root, href) ==
    IF StartsWith(href, <<"/", "/">>) THEN <<"https", ":">> \o href
    ELSE IF StartsWith(href, <<"/">>) THEN rstrip(root, {"/"}) \o href
    ELSE href

\* the candidates the <link rel="alternate"> tags of the root page add
advertised_feeds(root, links) ==
    LET sel == SelectSeq(links, LAMBDA l : l.type \in FeedTypes
                                           /\ l.href \notin {None, <<>>})
    IN  [i \in DOMAIN sel |-> resolve_href(root, sel[i].href)]

\* the candidates one root adds when the conventional paths come after the
\* advertised feeds
root_candidates_links_first(root, resp) ==
    (IF resp.kind = "ok" THEN advertised_feeds(root, resp.links) ELSE <<>>)
    \o conventional_feeds(root)

\* the candidates one root adds: the conventional paths, then the
\* advertised feeds when the root page was fetched and resp.ok
root_candidates(root, resp) ==
    conventional_feeds(root)
    \o (IF resp.kind = "ok" THEN advertised_feeds(root, resp.links) ELSE <<>>)

\* the loop "unique": the first occurrence of every candidate
RECURSIVE uniq(_, _)
uniq(cands, seen) ==
    IF cands = <<>> THEN <<>>
    ELSE IF Head(cands) \in seen THEN uniq(Tail(cands), seen)
    ELSE <<Head(cands)>> \o uniq(Tail(cands), seen \cup {Head(cands)})

\* discover_feeds(base_url), resps[i] being the answer of the i-th root
discover_feeds(base_url, resps) ==
    Eval1(LAMBDA roots :
        uniq(root_candidates(roots[1], resps[1])
             \o (IF Len(roots) > 1 THEN root_candidates(roots[2], resps[2])
                 ELSE <<>>),
             {}),
      roots_of(base_url))

\* canonicalize_url(link) of an entry or of an anchor
LinkUrl(link) == ArticleUrl([url |-> link])

\* scrape_rss(feed_url), fp being what feedparser.parse returns or raises
scrape_rss(feed_url, fp) ==
    IF fp.kind = "raises" THEN <<>>
    ELSE Eval2(LAMBDA kept, source :
            [i \in DOMAIN kept |->
                [title         |-> strip(kept[i].title),
                 url           |-> LinkUrl(kept[i].link),
                 published_utc |-> parse_any_datetime(kept[i].published),
                 source        |-> source,
                 via           |-> "rss"]],
          SelectSeq(fp.entries, LAMBDA e : e.link \notin {None, <<>>}
                                           /\ e.title \notin {None, <<>>}),
          urlparse(feed_url).netloc)

\* feeds[:6] of scrape_site
FeedCap == 6

\* the feeds scrape_site fetches when it fetches every feed discovered
feeds_to_fetch_all(feeds) == feeds

\* the feeds scrape_site fetches
feeds_to_fetch(feeds) ==
    Head_n(feeds, IF Len(feeds) < FeedCap THEN Len(feeds) ELSE FeedCap)

\* "if not out": the HTML listing runs when the feeds produced nothing
needs_fallback(out) == out = <<>>

\* max_links=60 and max_workers=8, scaled down
MaxLinks == 2
MaxWorkers == 2

\* "Dedup links preserving first title", then clean[:max_links]
RECURSIVE dedup_links(_, _)
dedup_links(links, seen) ==
    IF links = <<>> THEN <<>>
    ELSE IF Head(links).url \in seen THEN dedup_links(Tail(links), seen)
    ELSE <<Head(links)>>
         \o dedup_links(Tail(links), seen \cup {Head(links).url})

clean_links(links, max_links) ==
    Eval1(LAMBDA clean :
        Head_n(clean, IF Len(clean) < max_links THEN Len(clean) ELSE max_links),
      dedup_links(links, {}))

\* the record appended for the future of the link (t, ulink)
html_item(link, pub, source) ==
    [title |-> link.text, url |-> link.url, published_utc |-> pub,
     source |-> source, via |-> "html"]

(***************************************************************************)
(* pp.py: the pagination settings of the saved configs.  pagination.json   *)
(* holds one dict, a sequence of key and value pairs here; an Optional     *)
(* dict is the empty sequence for None and a one-element sequence          *)
(* otherwise.  The keys are strings and the values dicts of strings,       *)
(* integers and None, which json.dump and json.load give back unchanged.   *)
(***************************************************************************)
\* d.get(k)
dict_get(d, k) ==
    LET hit == SelectSeq(d, LAMBDA e : e.key = k)
    IN  IF hit = <<>> THEN <<>> ELSE <<hit[1].value>>

\* d.pop(k, None)
dict_pop(d, k) == SelectSeq(d, LAMBDA e : e.key # k)

\* d[k] = v: the value of a key d holds is replaced, a new key comes last
dict_set(d, k, v) ==
    IF \E i \in DOMAIN d : d[i].key = k
    THEN [i \in DOMAIN d |-> IF d[i].key = k THEN [key |-> k, value |-> v]
                             ELSE d[i]]
    ELSE Append(d, [key |-> k, value |-> v])

\* the dict set_pagination_for_config saves, pagination being the dict it
\* loaded
updated_pagination(pagination, config_filename, pagination_settings) ==
    IF pagination_settings = <<>> THEN dict_pop(pagination, config_filename)
    ELSE dict_set(pagination, config_filename, pagination_settings[1])

\* get_pagination_for_config(config_filename), content being what
\* load_pagination_config returns
get_pagination_for_config(content, config_filename) ==
    dict_get(content, config_filename)

\* the settings the "Save config" handler passes to
\* set_pagination_for_config
handler_settings(h) ==
    IF h.collect_pages /\ h.page_url_template # <<>>
    THEN <<[page_url_template |-> h.page_url_template,
            start_page |-> h.start_page, max_pages |-> h.max_pages,
            cutoff_date |-> h.cutoff_date]>>
    ELSE <<>>

(***************************************************************************)
(* Harness: canonicalize_url applied once and then to its own result       *)
(***************************************************************************)
CanonIdle == c_pc = "idle" /\ c_url = <<>> /\ c_once = <<>> /\ c_twice = <<>>

CanonStart ==
    /\ c_pc = "input"
    /\ c_url \in UrlInputs
    /\ c_once = <<>>
    /\ c_twice = <<>>

CanonOnce ==
    /\ c_pc = "input"
    /\ c_once' = canonicalize_url(c_url)
    /\ c_pc' = "once"
    /\ UNCHANGED <<c_url, c_twice, notCanon>>

CanonTwice ==
    /\ c_pc = "once"
    /\ c_twice' = canonicalize_url(c_once)
    /\ c_pc' = "twice"
    /\ UNCHANGED <<c_url, c_once, notCanon>>

CanonNext == CanonOnce \/ CanonTwice

(***************************************************************************)
(* Harness: dedup_rows applied once and then to its own result             *)
(***************************************************************************)
MaxRows == 3

UrlX    == <<"https", ":", "/", "/", "ex.com", "/", "x">>
UrlXUtm == <<"https", ":", "/", "/", "ex.com", "/", "x", "?", "utm_source", "=", "z">>
UrlY    == <<"https", ":", "/", "/", "ex.com", "/", "y">>

Row(title, url, pub, source) ==
    [title |-> title, url |-> url, published_utc |-> pub, source |-> source]

DedupTitles == {<<"X">>, <<"x">>, <<" ", "x">>, <<"y">>}
DedupUrls   == {UrlX, UrlY}
DedupRowSet == {Row(t, u, NoPub, <<"ex.com">>) : t \in DedupTitles, u \in DedupUrls}

SeqsUpTo(S, n) == UNION {[1..k -> S] : k \in 0..n}

DedupIdle == d_pc = "idle" /\ d_rows = <<>> /\ d_once = <<>> /\ d_twice = <<>>

DedupStart ==
    /\ d_pc = "input"
    /\ d_rows \in SeqsUpTo(DedupRowSet, MaxRows)
    /\ d_once = <<>>
    /\ d_twice = <<>>

DedupOnce ==
    /\ d_pc = "input"
    /\ d_once' = dedup_rows(d_rows)
    /\ d_pc' = "once"
    /\ UNCHANGED <<d_rows, d_twice, notDedup>>

DedupTwice ==
    /\ d_pc = "once"
    /\ d_twice' = dedup_rows(d_once)
    /\ d_pc' = "twice"
    /\ UNCHANGED <<d_rows, d_once, notDedup>>

DedupNext == DedupOnce \/ DedupTwice

(***************************************************************************)
(* Harness: cap_by_date of either source file on a list of rows            *)
(***************************************************************************)
MaxCapRows == 2
DaySpan    == 1

FirstDay == BstStartDay
LastDay  == BstStartDay + DaySpan
CapDays  == FirstDay..LastDay

\* instants at and one second before each local midnight and UTC midnight
CapInstants ==
    UNION {{LocalToUtc(d, 0) - 1, LocalToUtc(d, 0), d * SecondsPerDay} :
              d \in FirstDay..(LastDay + 1)}

CapPubs ==
    {Dt(t, "utc") : t \in CapInstants}
        \cup {Dt(LocalToUtc(LastDay, SecondsPerDay - 1), "naive"),
              Dt(LocalToUtc(FirstDay, 0), "+01:00"),
              StrPub(<<"2024-03-31T23:00:00Z">>), StrPub(<<"2024-03-31 22:59:59">>),
              StrPub(<<"n/a">>), NoPub}

CapRowSet == {Row(<<"x">>, UrlX, p, <<"ex.com">>) : p \in CapPubs}

CapIdle ==
    /\ k_pc = "idle" /\ k_variant = "none" /\ k_rows = <<>>
    /\ k_start = 0 /\ k_end = 0 /\ k_out = <<>>

CapStart ==
    /\ k_pc = "input"
    /\ k_variant \in {"pp", "old"}
    /\ k_rows \in SeqsUpTo(CapRowSet, MaxCapRows)
    /\ k_start \in CapDays
    /\ k_end \in CapDays
    /\ k_out = <<>>

\* cap_by_date(rows, start_d, end_d) of src/pp.py
CapPp ==
    /\ k_pc = "input" /\ k_variant = "pp"
    /\ k_out' = cap_by_date(k_rows, k_start, k_end)
    /\ k_pc' = "done"
    /\ UNCHANGED <<k_variant, k_rows, k_start, k_end, notCap>>

\* cap_by_date(rows, start_d, end_d) of src/old_files
CapOld ==
    /\ k_pc = "input" /\ k_variant = "old"
    /\ k_out' = cap_by_date_old(k_rows, k_start, k_end)
    /\ k_pc' = "done"
    /\ UNCHANGED <<k_variant, k_rows, k_start, k_end, notCap>>

CapNext == CapPp \/ CapOld

(***************************************************************************)
(* Harness: infer_field_mapping on a grouped result, then                  *)
(* assemble_items_from_grouped with the inferred mapping                   *)
(***************************************************************************)
MaxGroups == 3

UrlA1      == <<"https", ":", "/", "/", "a.com", "/", "1">>
UrlA2      == <<"https", ":", "/", "/", "a.com", "/", "2">>
UrlA3      == <<"HTTPS", ":", "/", "/", "a.com", "/", "3">>
UrlADated  == <<"https", ":", "/", "/", "a.com", "/", "2024-03-10">>
TitleOne   == <<"Title", " ", "One">>
TitleTwo   == <<"Title", " ", "Two">>
TitleFour  == <<"Title", " ", "Four">>
TitleLong  == <<"Title", " ", "Number", " ", "One">>

\* the value lists a rule of the trained extractor yields on a page
GroupLists ==
    { <<UrlA1, UrlA2>>, <<UrlA3>>, <<UrlADated, UrlA1>>,
      <<UrlA1, TitleOne, TitleTwo, TitleOne, TitleTwo>>,
      << <<"2024-01-01">>, <<"2024-01-02">> >>,
      << <<"Posted", " ", "20.02.2024">>, <<"5/6/24">>, <<"2024-13-01">> >>,
      <<TitleOne, TitleTwo>>, <<TitleFour>>, <<TitleLong, TitleTwo>>,
      << <<" ">>, <<>> >>, <<>> }

RuleNames == <<"g1", "g2", "g3", "g4">>

InferInputs ==
    {[i \in DOMAIN f |-> [rule |-> RuleNames[i], vals |-> f[i]]] :
        f \in UNION {[1..n -> GroupLists] : n \in 0..MaxGroups}}

InferIdle == i_pc = "idle" /\ i_grouped = <<>> /\ i_mapping = <<>> /\ i_items = <<>>

InferStart ==
    /\ i_pc = "input"
    /\ i_grouped \in InferInputs
    /\ i_mapping = <<>>
    /\ i_items = <<>>

\* mapping = infer_field_mapping(grouped)
InferMapping ==
    /\ i_pc = "input"
    /\ i_mapping' = infer_field_mapping(i_grouped)
    /\ i_pc' = IF i_mapping' = InferRaises THEN "raised" ELSE "mapped"
    /\ UNCHANGED <<i_grouped, i_items, notInfer>>

\* items = assemble_items_from_grouped(grouped, mapping)
InferAssemble ==
    /\ i_pc = "mapped"
    /\ i_items' = assemble_items_from_grouped(i_grouped, i_mapping)
    /\ i_pc' = "done"
    /\ UNCHANGED <<i_grouped, i_mapping, notInfer>>

InferNext == InferMapping \/ InferAssemble

(***************************************************************************)
(* scrape_pages_collect_items on a paginated site.  A response of the      *)
(* trained extractor is the grouped result of a page or a failed fetch;    *)
(* the site answers its first pages from p_site and every later page with  *)
(* p_rest.                                                                 *)
(***************************************************************************)
MaxSitePages == 3

Fetched(grouped) == [ok |-> TRUE, grouped |-> grouped]
FetchFails       == [ok |-> FALSE, grouped |-> <<>>]

Grouped2(urls, dates) ==
    <<[rule |-> "g1", vals |-> urls], [rule |-> "g2", vals |-> dates]>>

CollPage1 ==
    Fetched(Grouped2(<<UrlA1>>, << <<"2024-03-10">> >>)
               \o <<[rule |-> "g3", vals |-> <<TitleLong>>]>>)
CollPage2    == Fetched(Grouped2(<<UrlA2>>, << <<"2024-03-05">> >>))
CollPage3    == Fetched(Grouped2(<<UrlA3>>, << <<"2024-02-20">> >>))
\* a page that lists an article of page 1 again, with another date
CollPageDup  ==
    Fetched(Grouped2(<<UrlA1, UrlADated>>, << <<"2024-02-20">>, <<"2024-03-05">> >>))
\* a page without dates, its second item without a url
CollPageNoDate ==
    Fetched(Grouped2(<<UrlA2>>, <<>>)
               \o <<[rule |-> "g3", vals |-> <<TitleLong, TitleLong>>]>>)
CollPageEmpty  == Fetched(Grouped2(<<>>, <<>>))
CollPageNoRule == Fetched(<<>>)

SitePages == {CollPage1, CollPage2, CollPage3, CollPageDup}
RestPages == {FetchFails, CollPageNoRule, CollPageEmpty, CollPageNoDate}

ExplicitMapping ==
    <<[rule |-> "g1", field |-> "url"], [rule |-> "g2", field |-> "date"],
      [rule |-> "g3", field |-> "title"]>>

\* scraper.get_result_similar(page_url_template.format(page=p), grouped=True)
PageAt(site, rest, n) == IF n <= Len(site) THEN site[n] ELSE rest

CollIdle ==
    /\ p_pc = "idle"
    /\ p_site = <<>> /\ p_rest = FetchFails
    /\ p_start_page = 0 /\ p_max_pages = 0
    /\ p_cutoff_date_iso = None /\ p_mapping = <<>> /\ p_selected_rule_names = {}
    /\ p_page = 0 /\ collected = <<>> /\ seen_urls = {}
    /\ pages_scraped = 0 /\ has_any_dates = FALSE
    /\ p_fetched = <<>> /\ p_added = <<>>

\* the call and the state before the first iteration
CollStart ==
    /\ p_pc = "loop"
    /\ p_site \in SeqsUpTo(SitePages, MaxSitePages)
    /\ p_rest \in RestPages
    /\ p_start_page \in {1, 2}
    /\ p_max_pages \in {2, 10}
    /\ p_cutoff_date_iso \in {None, <<"2024-03-01">>, <<"2024-03-05">>}
    /\ \E opt \in {<< <<>>, {} >>, <<ExplicitMapping, {}>>, << <<>>, {"g1", "g2"} >>} :
          p_mapping = opt[1] /\ p_selected_rule_names = opt[2]
    /\ p_page = p_start_page
    /\ collected = <<>> /\ seen_urls = {}
    /\ pages_scraped = 0 /\ has_any_dates = FALSE
    /\ p_fetched = <<>> /\ p_added = <<>>

\* the rest of an iteration once the page's items are assembled
CollectItems(items) ==
    \E st \in {collect_items(items, [collected |-> collected, seen_urls |-> seen_urls,
                                     has_any_dates |-> has_any_dates,
                                     page_oldest_date |-> NoDate])} :
        /\ collected' = st.collected
        /\ seen_urls' = st.seen_urls
        /\ has_any_dates' = st.has_any_dates
        /\ pages_scraped' = pages_scraped + 1
        /\ p_added' = Append(p_added, Len(st.collected) - Len(collected))
        /\ IF \/ cutoff_reached(CutoffDt(p_cutoff_date_iso), st.page_oldest_date)
              \/ items = <<>>
              \/ p_page + 1 >= p_start_page + p_max_pages
           THEN p_pc' = "done" /\ p_page' = p_page
           ELSE p_pc' = "loop" /\ p_page' = p_page + 1

\* one iteration of the for loop over the pages, up to its break or to the
\* end of the range
CollectPage ==
    /\ p_pc = "loop"
    /\ p_fetched' = Append(p_fetched, p_page)
    /\ \E resp \in {PageAt(p_site, p_rest, p_page)} :
         IF ~resp.ok
         THEN /\ p_pc' = "done"
              /\ UNCHANGED <<p_page, collected, seen_urls, pages_scraped,
                             has_any_dates, p_added>>
         ELSE \E grouped \in {FilterRules(resp.grouped, p_selected_rule_names)} :
              \E active_mapping \in {ActiveMapping(grouped, p_mapping)} :
                 IF active_mapping = InferRaises
                 THEN /\ p_pc' = "raised"
                      /\ UNCHANGED <<p_page, collected, seen_urls, pages_scraped,
                                     has_any_dates, p_added>>
                 ELSE CollectItems(assemble_items_from_grouped(grouped, active_mapping))
    /\ UNCHANGED <<collArgs, notColl>>

CollNext == CollectPage

(***************************************************************************)
(* Harness: gdelt_artlist_rolling against an API.  g_api = "mock" is the   *)
(* API that answers every request with exactly max_per_call articles of    *)
(* strictly decreasing seendate later than the window start; g_api = "any" *)
(* answers with an error or with any list of at most max_per_call          *)
(* articles; g_api = "store" holds the articles g_store, newest first, and *)
(* answers every request with the newest max_per_call of them whose        *)
(* seendate lies between the startdatetime and the enddatetime of the      *)
(* request; g_api = "over" ignores maxrecords and answers with             *)
(* max_per_call + 2 articles.                                              *)
(***************************************************************************)
\* how many seendate seconds after the window start the articles take
MaxSeen == 4

\* the largest max_per_call of a call to the "mock" API
MaxPerCall == 2

\* the values of max_per_call of a call to the "any" API
AnyPerCall == {1, 2}

\* the API of a call and its max_per_call
GdeltCalls ==
    ({"mock"} \X (1..MaxPerCall)) \cup ({"any", "store"} \X AnyPerCall) \cup ({"over"} \X {1})

\* the seendate string of the second i of 2024-03-05, and of the second before
SeenTok(i) == IF i < 0 THEN <<"20240304T235959Z">>
              ELSE <<"20240305T00000", Digits[i + 1], "Z">>

Article(seen, n) ==
    [seendate |-> seen, url |-> GdeltUrl(n),
     title |-> <<"x">>, domain |-> <<"ex.com">>]

\* the article seen at second i
ArticleAt(i) == Article(StrPub(SeenTok(i)), IF i < 0 THEN 9 ELSE i)

\* articles without a seendate, with one no parser reads, and without a url
ArticleNoSeen  == Article(NoPub, 8)
ArticleBadSeen == Article(StrPub(<<"soon">>), 8)
ArticleNoUrl   == [ArticleAt(0) EXCEPT !.url = None]

\* lists of n articles of strictly decreasing seendate after the window start
DecreasingLists(n) ==
    {[i \in 1..n |-> ArticleAt(f[i])] :
        f \in {g \in [1..n -> 1..MaxSeen] : \A i \in 1..(n - 1) : g[i] > g[i + 1]}}

AnyArticles == {ArticleAt(i) : i \in -1..2}
                   \cup {ArticleNoSeen, ArticleBadSeen, ArticleNoUrl}

ApiError == [ok |-> FALSE]
ApiOk(arts) == [ok |-> TRUE, articles |-> arts]

\* start_dt_utc and end_dt_utc of the call
start_dt_utc == LocalToUtc(g_start_d, 0)
end_dt_utc == LocalToUtc(g_end_d, SecondsPerDay - 1)

\* the articles the "store" API may hold: <<second, number of the url>>
StoreEntries == {<<0, 0>>, <<0, 5>>, <<1, 1>>, <<1, 6>>, <<2, 2>>}

RECURSIVE StoreSeq(_)
\* the articles of a set of entries, newest first
StoreSeq(S) ==
    IF S = {} THEN <<>>
    ELSE LET e == CHOOSE x \in S :
                     \A y \in S : x[1] > y[1] \/ (x[1] = y[1] /\ x[2] <= y[2])
         IN  <<Article(StrPub(SeenTok(e[1])), e[2])>> \o StoreSeq(S \ {e})

\* the stores of at most as many articles as the ceiling
Stores == {StoreSeq(S) : S \in {T \in SUBSET StoreEntries : Cardinality(T) <= ResultCeiling}}

\* the answer of the "store" API: the newest n articles seen between the
\* start of the window and the cursor
StoreAnswer(n) ==
    LET hits == SelectSeq(g_store, LAMBDA a :
                    /\ parse_any_datetime(a.seendate).t >= start_dt_utc
                    /\ parse_any_datetime(a.seendate).t <= cursor_end)
    IN  SubSeq(hits, 1, IF Len(hits) < n THEN Len(hits) ELSE n)

\* lists of more articles than the request asked for
OverLists(n) == [1..(n + 2) -> {ArticleAt(1), ArticleAt(2)}]

\* the answers of the API to one request
Responses(api, n) ==
    IF api = "mock" THEN {ApiOk(arts) : arts \in DecreasingLists(n)}
    ELSE IF api = "store" THEN {ApiOk(StoreAnswer(n))}
    ELSE IF api = "over" THEN {ApiOk(arts) : arts \in OverLists(n)}
    ELSE {ApiError} \cup {ApiOk(arts) : arts \in SeqsUpTo(AnyArticles, n)}

GdeltIdle ==
    /\ g_pc = "idle" /\ g_api = "none" /\ g_store = <<>>
    /\ g_start_d = 0 /\ g_end_d = 0 /\ max_per_call = 0
    /\ results = <<>> /\ cursor_end = 0 /\ batch_idx = 0
    /\ g_events = <<>> /\ g_calls = <<>> /\ g_resps = <<>> /\ g_ret = <<>>

\* the call and the state before the first iteration
GdeltStart ==
    /\ g_pc = "loop"
    /\ \E call \in GdeltCalls : g_api = call[1] /\ max_per_call = call[2]
    /\ IF g_api = "store" THEN g_store \in Stores ELSE g_store = <<>>
    /\ g_start_d = March5 /\ g_end_d = March5
    /\ results = <<>>
    /\ cursor_end = end_dt_utc
    /\ batch_idx = 0
    /\ g_events = <<>> /\ g_calls = <<>> /\ g_resps = <<>> /\ g_ret = <<>>

\* the requests a call may send in the model: past the ceiling no call gets
\* this far
MaxCalls == ResultCeiling + 2

\* after the loop: cap_by_date, dedup_rows, the done event, return
GdeltReturn(res, evs) ==
    \E out \in {dedup_rows(cap_by_date(res, g_start_d, g_end_d))} :
        /\ g_pc' = "done"
        /\ results' = res
        /\ g_ret' = out
        /\ g_events' = Append(evs, [event |-> "done", total |-> Len(out)])

\* the end of an iteration whose batch was full: the new cursor, the ceiling
GdeltAdvance(arts, res, evs) ==
    \E seen \in {SeenDates(arts)} :
        IF MinRaises(seen)
        THEN /\ g_pc' = "raised"        \* TypeError leaves the function
             /\ results' = res /\ g_events' = evs
             /\ UNCHANGED <<cursor_end, g_ret>>
        ELSE \E oldest \in {Oldest(seen)} :
            IF oldest = NoPub \/ oldest.t <= start_dt_utc
            THEN GdeltReturn(res, evs) /\ UNCHANGED cursor_end
            ELSE /\ cursor_end' = next_cursor(oldest)
                 /\ IF over_ceiling(res)
                    THEN GdeltReturn(res, Append(evs,
                             [event |-> "warn", message |-> "Stopping after 10k articles"]))
                    ELSE /\ g_pc' = "loop"
                         /\ results' = res /\ g_events' = evs
                         /\ UNCHANGED g_ret

\* the request fails and the exception leaves the function
GdeltError_raises ==
    /\ g_pc' = "raised"
    /\ UNCHANGED <<results, g_events, cursor_end, g_ret>>

\* the request fails (an exception of SESSION.get or r.json(), or not r.ok):
\* the error event, break
GdeltError ==
    /\ GdeltReturn(results, Append(g_events, [event |-> "error"]))
    /\ UNCHANGED cursor_end

\* one iteration of the while loop, and what follows the loop when it breaks
GdeltCall ==
    /\ g_pc = "loop"
    /\ batch_idx < MaxCalls
    /\ batch_idx' = batch_idx + 1
    /\ g_calls' = Append(g_calls, [startdatetime |-> start_dt_utc,
                                   enddatetime   |-> cursor_end])
    /\ \E r \in Responses(g_api, max_per_call) :
        /\ g_resps' = Append(g_resps, r)
        /\ IF ~r.ok
           THEN GdeltError
           ELSE \E evs \in {Append(g_events,
                               [event |-> "batch", batch |-> batch_idx',
                                fetched |-> Len(r.articles), total |-> Len(results)])} :
                IF r.articles = <<>>
                THEN GdeltReturn(results, evs) /\ UNCHANGED cursor_end
                ELSE \E res \in {results \o BatchRows(r.articles)} :
                    IF short_batch(r.articles, max_per_call)
                    THEN GdeltReturn(res, evs) /\ UNCHANGED cursor_end
                    ELSE GdeltAdvance(r.articles, res, evs)
    /\ UNCHANGED <<gdeltArgs, notGdelt>>

GdeltNext == GdeltCall

(***************************************************************************)
(* Harness: the "Scrape now" run of pp.py.                                 *)
(***************************************************************************)
PipeIdle ==
    /\ m_pc = "idle"
    /\ m_start_d = 0 /\ m_end_d = 0 /\ m_mode_choice = "none"
    /\ m_configs = <<>> /\ m_arts = <<>>
    /\ rows_auto = <<>> /\ rows_gdelt = <<>> /\ rows_all = <<>>

\* how many configs a run loads
MaxConfigs == 2

\* the last day of the window of a run: 2024-03-10
March10 == 31 + 29 + 9

\* a config whose page lists one article
PipeConfig(site_name, url, title, dates) ==
    [site_name |-> site_name, mapping |-> ExplicitMapping, saved_from_rules |-> {},
     grouped |-> Grouped2(<<url>>, dates) \o <<[rule |-> "g3", vals |-> <<title>>]>>]

\* a config whose page lists an article without a title, and one whose page
\* lists a title without a url
PipeConfigNoTitle ==
    [PipeConfig(<<"Ex">>, UrlY, <<"y">>, <<>>) EXCEPT
        !.grouped = Grouped2(<<UrlY>>, <<>>) \o <<[rule |-> "g3", vals |-> <<>>]>>]
PipeConfigNoUrl ==
    [PipeConfig(<<"Ex">>, UrlY, <<"y">>, <<>>) EXCEPT
        !.grouped = Grouped2(<<>>, <<>>) \o <<[rule |-> "g3", vals |-> << <<"y">> >>]>>]

PipeConfigSet ==
    {PipeConfig(<<"Ex">>, u, t, d) :
        u \in {UrlX, UrlXUtm}, t \in {<<"X">>, <<"x">>},
        d \in {<<>>, << <<"2024-02-20">> >>, << <<"2024-03-05">> >>}}
      \cup {PipeConfigNoTitle, PipeConfigNoUrl}

\* the articles GDELT holds: one of the window that a config lists too, one
\* seen the second before the window starts
PipeArticleSet ==
    {[ArticleAt(1) EXCEPT !.url = UrlXUtm, !.title = <<"X">>], ArticleAt(-1)}

ModeChoices == {"AutoScraper configs only", "GDELT only", "AutoScraper + GDELT"}

\* the button is pressed
PipeStart ==
    /\ m_pc = "start"
    /\ m_start_d = March5 /\ m_end_d = March10
    /\ m_mode_choice \in ModeChoices
    /\ m_configs \in SeqsUpTo(PipeConfigSet, MaxConfigs)
    /\ m_arts \in SeqsUpTo(PipeArticleSet, 1)
    /\ rows_auto = <<>> /\ rows_gdelt = <<>> /\ rows_all = <<>>

\* the handler of "Scrape now": the configs, GDELT, rows_all
ScrapeNow ==
    /\ m_pc = "start"
    /\ rows_auto' = IF m_mode_choice \in {"AutoScraper configs only", "AutoScraper + GDELT"}
                    THEN scrape_configs(m_configs, m_start_d, m_end_d)
                    ELSE <<>>
    /\ rows_gdelt' = IF m_mode_choice \in {"GDELT only", "AutoScraper + GDELT"}
                     THEN gdelt_one_batch(m_arts, m_start_d, m_end_d)
                     ELSE <<>>
    /\ \E merged \in {dedup_rows(rows_auto' \o rows_gdelt')} :
        IF IsRaised(merged)             \* the exception leaves the handler
        THEN m_pc' = "raised" /\ UNCHANGED rows_all
        ELSE m_pc' = "done" /\ rows_all' = merged
    /\ UNCHANGED <<pipeArgs, notPipe>>

PipeNext == ScrapeNow

(***************************************************************************)
(* Harness: a Dev Tools session.  Every button may be pressed at any time; *)
(* pagination is disabled and every rule checkbox stays checked.           *)
(***************************************************************************)
\* what the trained extractor reads on the two pages a session trains on: the
\* same rules, inferred as url and title on one, as date and other on the other
TrainPageA ==
    <<[rule |-> "g1", vals |-> <<UrlA1>>], [rule |-> "g2", vals |-> <<TitleLong>>]>>
TrainPageB ==
    <<[rule |-> "g1", vals |-> << <<"2024-03-10">> >>], [rule |-> "g2", vals |-> <<TitleOne>>]>>
TrainPages == {TrainPageA, TrainPageB}

\* the choices a session picks in a selectbox, of "auto", "title", "url",
\* "date", "other"
EditChoices == {"auto", "url", "other"}

RuleIds(grouped) == {grouped[i].rule : i \in DOMAIN grouped}

\* no config saved, no confirmation made, no mapping applied
NoConfig  == [site_name |-> None]
NoBasis   == [choices |-> NoMapping, inferred |-> NoMapping]
NoApplied == [by |-> "none"]

\* the choices and the inference a mapping is made from
Basis(manual, grouped) == [choices |-> manual, inferred |-> infer_field_mapping(grouped)]

Applied(by, mapping, grouped, basis, items) ==
    [by |-> by, mapping |-> mapping, grouped |-> grouped,
     choices |-> basis.choices, inferred |-> basis.inferred, items |-> items]

SessIdle ==
    /\ t_pc = "idle"
    /\ last_grouped = <<>> /\ manual_mapping = <<>>
    /\ confirmed_mapping = NoMapping /\ collected_items = <<>>
    /\ final_config = NoConfig
    /\ t_confirmed = NoBasis /\ t_applied = NoApplied

\* the session state of a new session
SessStart ==
    /\ t_pc = "run"
    /\ last_grouped = <<>> /\ manual_mapping = <<>>
    /\ confirmed_mapping = NoMapping /\ collected_items = <<>>
    /\ final_config = NoConfig
    /\ t_confirmed = NoBasis /\ t_applied = NoApplied

\* "Train Scraper", and the run of the script that shows the rule groups
Train ==
    /\ t_pc = "run"
    /\ \E grouped \in TrainPages :
        /\ last_grouped' = grouped
        /\ manual_mapping' = override_widgets(grouped, manual_mapping)
    /\ confirmed_mapping' = NoMapping
    /\ t_confirmed' = NoBasis /\ t_applied' = NoApplied
    /\ UNCHANGED <<t_pc, collected_items, final_config, notSess>>

\* a selectbox of "Override mapping" is changed
EditOverride ==
    /\ t_pc = "run" /\ last_grouped # <<>>
    /\ \E r \in RuleIds(last_grouped), c \in EditChoices :
        /\ MappingGet(manual_mapping, r, "other") # c
        /\ manual_mapping' = set_choice(manual_mapping, r, c)
    /\ t_applied' = NoApplied
    /\ UNCHANGED <<t_pc, last_grouped, confirmed_mapping, collected_items,
                   final_config, t_confirmed, notSess>>

\* "Confirm mapping"
ConfirmMapping ==
    /\ t_pc = "run" /\ last_grouped # <<>>
    /\ confirmed_mapping' = used_mapping(infer_field_mapping(last_grouped), manual_mapping)
    /\ t_confirmed' = Basis(manual_mapping, last_grouped)
    /\ t_applied' = NoApplied
    /\ UNCHANGED <<t_pc, last_grouped, manual_mapping, collected_items,
                   final_config, notSess>>

\* "Preview assembled items"
PreviewItems ==
    /\ t_pc = "run" /\ last_grouped # <<>>
    /\ \E mapping \in {used_mapping(infer_field_mapping(last_grouped), manual_mapping)} :
        t_applied' = Applied("preview", mapping, last_grouped,
                             Basis(manual_mapping, last_grouped),
                             assemble_items_from_grouped(last_grouped, mapping))
    /\ UNCHANGED <<t_pc, last_grouped, manual_mapping, confirmed_mapping,
                   collected_items, final_config, t_confirmed, notSess>>

\* "Collect items" without pagination
CollectItemsButton ==
    /\ t_pc = "run" /\ last_grouped # <<>>
    /\ \E mapping_to_use \in
           {IF confirmed_mapping # NoMapping THEN confirmed_mapping
            ELSE used_mapping(infer_field_mapping(last_grouped), manual_mapping)} :
        /\ collected_items' =
               dedupe_collected(assemble_items_from_grouped(last_grouped, mapping_to_use), {})
        /\ t_applied' = Applied("collect", mapping_to_use, last_grouped,
                                IF confirmed_mapping # NoMapping THEN t_confirmed
                                ELSE Basis(manual_mapping, last_grouped),
                                collected_items')
    /\ UNCHANGED <<t_pc, last_grouped, manual_mapping, confirmed_mapping,
                   final_config, t_confirmed, notSess>>

\* "Save config": the config written, with the page its url shows and the
\* choices and inference its mapping was made from
SaveConfig ==
    /\ t_pc = "run" /\ last_grouped # <<>>
    /\ collected_items # <<>>
    /\ \E basis \in {IF confirmed_mapping # NoMapping THEN t_confirmed
                     ELSE Basis(manual_mapping, last_grouped)} :
        final_config' =
            [site_name        |-> <<"Ex">>,
             saved_from_rules |-> RuleIds(last_grouped),
             mapping          |-> saved_mapping(confirmed_mapping, manual_mapping),
             grouped          |-> last_grouped,
             choices          |-> basis.choices,
             inferred         |-> basis.inferred]
    /\ t_applied' = NoApplied
    /\ UNCHANGED <<t_pc, last_grouped, manual_mapping, confirmed_mapping,
                   collected_items, t_confirmed, notSess>>

\* a scrape replays the saved config: scrape_with_autoscraper_config
ScrapeSaved ==
    /\ t_pc = "run" /\ final_config # NoConfig
    /\ t_applied' = Applied("scrape", final_config.mapping, final_config.grouped,
                            final_config,
                            scrape_with_autoscraper_config(final_config, March5, March10))
    /\ UNCHANGED <<t_pc, last_grouped, manual_mapping, confirmed_mapping,
                   collected_items, final_config, t_confirmed, notSess>>

SessNext ==
    \/ Train \/ EditOverride \/ ConfirmMapping \/ PreviewItems
    \/ CollectItemsButton \/ SaveConfig \/ ScrapeSaved

(***************************************************************************)
(* Harness: two per-source lists merged in both orders                     *)
(***************************************************************************)
MaxMergeRows == 2

InWindow  == Dt(FirstDay * SecondsPerDay + SecondsPerDay \div 2, "utc")
OutWindow == Dt((FirstDay - 2) * SecondsPerDay, "utc")

MergeRowSet ==
    {Row(<<"X">>, UrlX, InWindow, <<"a.com">>), Row(<<"x">>, UrlX, InWindow, <<"b.com">>),
     Row(<<"x">>, UrlX, OutWindow, <<"b.com">>), Row(<<"y">>, UrlY, InWindow, <<"a.com">>)}

MergeIdle ==
    /\ o_pc = "idle" /\ o_a = <<>> /\ o_b = <<>>
    /\ o_ab = <<>> /\ o_ba = <<>> /\ o_each = <<>> /\ o_once = <<>>

MergeStart ==
    /\ o_pc = "input"
    /\ o_a \in SeqsUpTo(MergeRowSet, MaxMergeRows)
    /\ o_b \in SeqsUpTo(MergeRowSet, MaxMergeRows)
    /\ o_ab = <<>> /\ o_ba = <<>> /\ o_each = <<>> /\ o_once = <<>>

\* the run over the sources in the order A, B and in the order B, A
MergeOrders ==
    /\ o_pc = "input"
    /\ o_ab' = run_scrape(scrape_local_with_progress(<<o_a, o_b>>, FirstDay, FirstDay), <<>>)
    /\ o_ba' = run_scrape(scrape_local_with_progress(<<o_b, o_a>>, FirstDay, FirstDay), <<>>)
    /\ o_pc' = "orders"
    /\ UNCHANGED <<o_a, o_b, o_each, o_once, notMerge>>

\* each source deduplicated before the deduplicating merge, and the merge alone
MergeUnion ==
    /\ o_pc = "orders"
    /\ o_each' = run_scrape(dedup_rows(o_a), dedup_rows(o_b))
    /\ o_once' = run_scrape(o_a, o_b)
    /\ o_pc' = "done"
    /\ UNCHANGED <<o_a, o_b, o_ab, o_ba, notMerge>>

MergeNext == MergeOrders \/ MergeUnion

(***************************************************************************)
(* iris to scrape/utils.py: concurrent calls of atomic_write_json on one   *)
(* path, and a call of load_json_safe.  A file is an inode; the directory  *)
(* maps the names path and path + ".tmp" to an inode (0: no such file).    *)
(* A document is a sequence of chunks; a document of the model is smaller  *)
(* than the buffer of the text file object, so that json.dump and          *)
(* f.flush() hand it to the file in one write at the start of the file.    *)
(***************************************************************************)
NumWriters == 2
Writers == 1..NumWriters

\* the document of writer w (w chunks long) and the document on disk before
Doc(w) == [i \in 1..w |-> <<w, i>>]
Doc0   == <<<<0, 1>>>>

\* the content is one complete document: the one on disk before the calls or
\* the document of one writer
IsDocument(content) == content = Doc0 \/ \E w \in Writers : content = Doc(w)

\* data written at offset 0 over the content of a file
WriteAt0(content, data) ==
    data \o SubSeq(content, Len(data) + 1, Len(content))

FileIdle ==
    /\ f_pc = <<>> /\ f_dir = [path |-> 0, tmp |-> 0] /\ f_inodes = <<>>
    /\ f_fd = <<>> /\ f_err = <<>> /\ r_pc = "idle" /\ r_ret = <<>>

FileStart ==
    /\ f_pc = [w \in Writers |-> "start"]
    /\ f_dir = [path |-> 1, tmp |-> 0]
    /\ f_inodes = <<Doc0>>
    /\ f_fd = [w \in Writers |-> 0]
    /\ f_err = [w \in Writers |-> ""]
    /\ r_pc = "start" /\ r_ret = <<>>

\* open(tmp, "w"): the file of that name is truncated, or created
OpenTmp(w) ==
    /\ f_pc[w] = "start"
    /\ IF f_dir.tmp # 0
       THEN /\ f_inodes' = [f_inodes EXCEPT ![f_dir.tmp] = <<>>]
            /\ f_fd' = [f_fd EXCEPT ![w] = f_dir.tmp]
            /\ UNCHANGED f_dir
       ELSE /\ f_inodes' = Append(f_inodes, <<>>)
            /\ f_dir' = [f_dir EXCEPT !.tmp = Len(f_inodes) + 1]
            /\ f_fd' = [f_fd EXCEPT ![w] = Len(f_inodes) + 1]
    /\ f_pc' = [f_pc EXCEPT ![w] = "opened"]
    /\ UNCHANGED <<f_err, r_pc, r_ret, notFile>>

\* json.dump, f.flush(), os.fsync, and the end of the with block
DumpFlush(w) ==
    /\ f_pc[w] = "opened"
    /\ f_inodes' = [f_inodes EXCEPT ![f_fd[w]] = WriteAt0(@, Doc(w))]
    /\ f_pc' = [f_pc EXCEPT ![w] = "written"]
    /\ UNCHANGED <<f_dir, f_fd, f_err, r_pc, r_ret, notFile>>

\* os.replace(tmp, path): FileNotFoundError when no file has the name tmp
Replace(w) ==
    /\ f_pc[w] = "written"
    /\ IF f_dir.tmp = 0
       THEN /\ f_err' = [f_err EXCEPT ![w] = "FileNotFoundError"]
            /\ f_pc' = [f_pc EXCEPT ![w] = "raised"]
            /\ UNCHANGED f_dir
       ELSE /\ f_dir' = [f_dir EXCEPT !.path = f_dir.tmp, !.tmp = 0]
            /\ f_pc' = [f_pc EXCEPT ![w] = "done"]
            /\ UNCHANGED f_err
    /\ UNCHANGED <<f_inodes, f_fd, r_pc, r_ret, notFile>>

\* load_json_safe: os.path.exists(path)
LoadExists ==
    /\ r_pc = "start"
    /\ r_pc' = IF f_dir.path = 0 THEN "done" ELSE "exists"
    /\ UNCHANGED <<f_pc, f_dir, f_inodes, f_fd, f_err, r_ret, notFile>>

\* load_json_safe: open and json.load; {} when the content does not decode
LoadJson ==
    /\ r_pc = "exists"
    /\ r_ret' = IF f_dir.path # 0 /\ IsDocument(f_inodes[f_dir.path])
                THEN f_inodes[f_dir.path] ELSE <<>>
    /\ r_pc' = "done"
    /\ UNCHANGED <<f_pc, f_dir, f_inodes, f_fd, f_err, notFile>>

FileNext ==
    \/ \E w \in Writers : OpenTmp(w) \/ DumpFlush(w) \/ Replace(w)
    \/ LoadExists
    \/ LoadJson

(***************************************************************************)
(* Harness: scrape_site(base) against a site.  The site is what its roots  *)
(* answer to discover_feeds, what feedparser makes of each of its feeds,   *)
(* and what its listing page and article pages answer.  The futures of     *)
(* scrape_html_listing are run by at most MaxWorkers threads, started in   *)
(* the order of submission and finishing in any order; as_completed hands  *)
(* to the loop any future that has finished.                               *)
(***************************************************************************)
SiteBases ==
    { <<"ex.com">>, <<"https", ":", "/", "/", "ex.com">>,
      <<"http", ":", "/", "/", "ex.com">>,
      <<"https", ":", "/", "/", "ex.com", "/">> }

LinkTag(type, href) == [type |-> type, href |-> href]
RootRaises == [kind |-> "raises"]
RootStatus == [kind |-> "status"]
RootOk(links) == [kind |-> "ok", links |-> links]

RootAnswers ==
    { RootRaises, RootStatus,
      RootOk(<<LinkTag("application/rss+xml", <<"/", "feed">>),
               LinkTag("text/html", <<"/", "page">>)>>),
      RootOk(<<LinkTag("application/atom+xml",
                       <<"/", "/", "ex.com", "/", "alt.xml">>),
               LinkTag("application/rss+xml", None),
               LinkTag("text/xml", <<"/", "alt.xml">>)>>) }

\* the answers of the first and of the second root
RootResps ==
    {<<a, RootRaises>> : a \in RootAnswers}
    \cup {<<RootStatus, RootOk(<<LinkTag("text/xml", <<"/", "alt.xml">>)>>)>>}

FeedRaises == [kind |-> "raises"]
FeedOk(entries) == [kind |-> "ok", entries |-> entries]
FeedEntry(n) ==
    [link |-> GdeltUrl(n), title |-> <<" ", "Entry", " ", Digits[n + 1]>>,
     published |-> NoPub]
FeedEntryNoTitle == [link |-> GdeltUrl(3), title |-> None, published |-> NoPub]

\* a site: what feedparser makes of the feed whose url ends in a name, and
\* of every other feed
SiteFeeds ==
    { [other |-> FeedRaises, named |-> <<>>],
      [other |-> FeedOk(<<>>), named |-> <<>>],
      [other |-> FeedRaises,
       named |-> <<[name |-> "feed", fp |-> FeedOk(<<FeedEntryNoTitle>>)]>>],
      [other |-> FeedRaises,
       named |-> <<[name |-> "feed", fp |-> FeedOk(<<FeedEntry(1)>>)]>>],
      [other |-> FeedOk(<<>>),
       named |-> <<[name |-> "feeds", fp |-> FeedOk(<<FeedEntry(1)>>)]>>],
      [other |-> FeedRaises,
       named |-> <<[name |-> "alt.xml", fp |-> FeedOk(<<FeedEntry(1)>>)]>>],
      [other |-> FeedRaises,
       named |-> <<[name |-> "rss", fp |-> FeedOk(<<FeedEntry(1)>>)],
                   [name |-> "atom.xml",
                    fp |-> FeedOk(<<FeedEntry(2), FeedEntryNoTitle,
                                    FeedEntry(1)>>)]>>] }

FeedAnswer(site, feed_url) ==
    LET hit == SelectSeq(site.named,
                         LAMBDA n : n.name = feed_url[Len(feed_url)])
    IN  IF hit = <<>> THEN site.other ELSE hit[1].fp

\* the anchors of the listing page that pass the same-site and the
\* article-path tests, with what fetch_date makes of the page of each
Anchor(n, text, pub) == [text |-> text, href |-> GdeltUrl(n), pub |-> pub]
AnchorList ==
    << Anchor(1, <<"First">>, Dt(86400, 0)), Anchor(2, <<"Second">>, NoPub),
       Anchor(1, <<"First", " ", "again">>, Dt(86400, 0)),
       Anchor(3, <<"Third">>, Dt(0, 0)), Anchor(4, <<"Fourth">>, NoPub) >>

ListingAnswers ==
    { [kind |-> "raises"], [kind |-> "status"],
      [kind |-> "ok", anchors |-> <<>>],
      [kind |-> "ok", anchors |-> Head_n(AnchorList, 1)],
      [kind |-> "ok", anchors |-> AnchorList] }

\* links.append((text, canonicalize_url(href)))
listing_links(anchors) ==
    [i \in DOMAIN anchors |->
        [text |-> anchors[i].text, url |-> LinkUrl(anchors[i].href),
         pub |-> anchors[i].pub]]

SiteIdle ==
    /\ s_pc = "idle" /\ s_base = <<>> /\ s_resps = <<>> /\ s_site = <<>>
    /\ s_feeds = <<>> /\ s_fetched = <<>> /\ s_out = <<>> /\ s_links = <<>>
    /\ s_fut = <<>> /\ s_pub = <<>> /\ s_items = <<>> /\ s_listing = <<>>

SiteStart ==
    /\ s_pc = "start"
    /\ s_base \in SiteBases
    /\ s_resps \in RootResps
    /\ s_site \in SiteFeeds
    /\ s_feeds = <<>> /\ s_fetched = <<>> /\ s_out = <<>> /\ s_links = <<>>
    /\ s_fut = <<>> /\ s_pub = <<>> /\ s_items = <<>> /\ s_listing = <<>>

\* feeds = discover_feeds(base); out = []
Discover ==
    /\ s_pc = "start"
    /\ s_feeds' = discover_feeds(s_base, s_resps)
    /\ s_pc' = "feeds"
    /\ UNCHANGED <<s_base, s_resps, s_site, s_fetched, s_out, s_links, s_fut,
                   s_pub, s_items, s_listing, notSite>>

\* one turn of "for f in feeds[:6]: out.extend(scrape_rss(f))"
ScrapeFeed ==
    /\ s_pc = "feeds"
    /\ Len(s_fetched) < Len(feeds_to_fetch(s_feeds))
    /\ \E f \in {feeds_to_fetch(s_feeds)[Len(s_fetched) + 1]} :
          /\ s_out' = s_out \o scrape_rss(f, FeedAnswer(s_site, f))
          /\ s_fetched' = Append(s_fetched, f)
    /\ UNCHANGED <<s_pc, s_base, s_resps, s_site, s_feeds, s_links, s_fut,
                   s_pub, s_items, s_listing, notSite>>

\* the end of the loop and "if not out"
EndFeeds ==
    /\ s_pc = "feeds"
    /\ Len(s_fetched) = Len(feeds_to_fetch(s_feeds))
    /\ s_pc' = IF needs_fallback(s_out) THEN "html" ELSE "done"
    /\ UNCHANGED <<s_base, s_resps, s_site, s_feeds, s_fetched, s_out,
                   s_links, s_fut, s_pub, s_items, s_listing, notSite>>

\* scrape_html_listing up to the submission of the futures: the listing page
\* raises or is not ok and nothing is returned, or every link of clean is
\* submitted
FetchListing ==
    /\ s_pc = "html"
    /\ \E resp \in ListingAnswers :
          /\ s_listing' = resp
          /\ IF resp.kind # "ok"
            THEN /\ s_pc' = "done"
                 /\ UNCHANGED <<s_links, s_fut, s_pub>>
            ELSE \E clean \in {clean_links(listing_links(resp.anchors),
                                           MaxLinks)} :
                    /\ s_links' = clean
                    /\ s_fut' = [i \in DOMAIN clean |-> "queued"]
                    /\ s_pub' = [i \in DOMAIN clean |-> NoPub]
                    /\ s_pc' = "dates"
    /\ UNCHANGED <<s_base, s_resps, s_site, s_feeds, s_fetched, s_out,
                   s_items, notSite>>

\* a free worker takes the oldest future of the queue
StartFetch(i) ==
    /\ s_pc = "dates"
    /\ s_fut[i] = "queued"
    /\ \A j \in 1..(i - 1) : s_fut[j] # "queued"
    /\ Cardinality({j \in DOMAIN s_fut : s_fut[j] = "running"}) < MaxWorkers
    /\ s_fut' = [s_fut EXCEPT ![i] = "running"]
    /\ UNCHANGED <<s_pc, s_base, s_resps, s_site, s_feeds, s_fetched, s_out,
                   s_links, s_pub, s_items, s_listing, notSite>>

\* fetch_date(url) returns: the date of the page, or None
FinishFetch(i) ==
    /\ s_pc = "dates"
    /\ s_fut[i] = "running"
    /\ s_fut' = [s_fut EXCEPT ![i] = "finished"]
    /\ s_pub' = [s_pub EXCEPT ![i] = s_links[i].pub]
    /\ UNCHANGED <<s_pc, s_base, s_resps, s_site, s_feeds, s_fetched, s_out,
                   s_links, s_items, s_listing, notSite>>

\* one turn of "for fut in as_completed(futs)": items.append of a future
\* that has finished
Collect(i) ==
    /\ s_pc = "dates"
    /\ s_fut[i] = "finished"
    /\ s_fut' = [s_fut EXCEPT ![i] = "yielded"]
    /\ s_items' = Append(s_items,
                         html_item(s_links[i], s_pub[i],
                                   urlparse(roots_of(s_base)[1]).netloc))
    /\ UNCHANGED <<s_pc, s_base, s_resps, s_site, s_feeds, s_fetched, s_out,
                   s_links, s_pub, s_listing, notSite>>

\* return items; out.extend(...)
ReturnListing ==
    /\ s_pc = "dates"
    /\ \A i \in DOMAIN s_fut : s_fut[i] = "yielded"
    /\ s_out' = s_out \o s_items
    /\ s_pc' = "done"
    /\ UNCHANGED <<s_base, s_resps, s_site, s_feeds, s_fetched, s_links,
                   s_fut, s_pub, s_items, s_listing, notSite>>

SiteNext ==
    \/ Discover
    \/ ScrapeFeed
    \/ EndFeeds
    \/ FetchListing
    \/ \E i \in DOMAIN s_fut : StartFetch(i) \/ FinishFetch(i) \/ Collect(i)
    \/ ReturnListing

(***************************************************************************)
(* Harness: the sessions of the app saving configs.  Every session runs    *)
(* its own script thread; a call of set_pagination_for_config is a load of *)
(* pagination.json followed by a write of the whole dict.  The write is    *)
(* one step here: its own steps are those of SpecFile.                     *)
(***************************************************************************)
Sessions == {1, 2}
ConfigNames == {"a.json", "b.json"}
StoredNames == ConfigNames \cup {"c.json"}

\* how many calls the sessions make together
MaxSetCalls == 3

PageTemplate == <<"https", ":", "/", "/", "a.com", "/", "p", "{page}">>

HandlerInput(collect_pages, template, start_page, max_pages, cutoff_date) ==
    [collect_pages |-> collect_pages, page_url_template |-> template,
     start_page |-> start_page, max_pages |-> max_pages,
     cutoff_date |-> cutoff_date]

HandlerInputs ==
    { HandlerInput(TRUE, PageTemplate, 1, 10, None),
      HandlerInput(TRUE, PageTemplate, 2, 5, <<"2024-03-01">>),
      HandlerInput(FALSE, PageTemplate, 1, 10, None),
      HandlerInput(TRUE, <<>>, 1, 10, None) }

\* pagination.json before the calls: {} as ensure_file_exists leaves it, or
\* the settings of another config
StoredBefore ==
    { <<>>,
      <<[key |-> "c.json",
         value |-> handler_settings(
                       HandlerInput(TRUE, PageTemplate, 1, 3, None))[1]]>> }

PagIdle ==
    /\ n_pc = <<>> /\ n_file = <<>> /\ n_args = <<>> /\ n_local = <<>>
    /\ n_calls = 0 /\ n_expect = <<>> /\ n_overlap = "none"

PagStart ==
    /\ n_pc = [w \in Sessions |-> "ready"]
    /\ n_file \in StoredBefore
    /\ n_args = [w \in Sessions |->
                    [config_filename |-> "", pagination_settings |-> <<>>]]
    /\ n_local = [w \in Sessions |-> <<>>]
    /\ n_calls = 0
    /\ n_expect = [g \in StoredNames |-> dict_get(n_file, g)]
    /\ n_overlap = "none"

\* the handler calls set_pagination_for_config(final_filename, settings or
\* None), which begins with pagination = load_pagination_config()
SetLoad(w) ==
    /\ n_pc[w] = "ready"
    /\ n_calls < MaxSetCalls
    /\ \E f \in ConfigNames, h \in HandlerInputs :
          /\ n_args' = [n_args EXCEPT ![w] =
                           [config_filename |-> f,
                            pagination_settings |-> handler_settings(h)]]
          /\ n_overlap' =
                IF \E v \in Sessions : n_pc[v] = "loaded"
                                       /\ n_args[v].config_filename = f
                THEN "same"
                ELSE IF n_overlap = "none"
                        /\ \E v \in Sessions : n_pc[v] = "loaded"
                     THEN "different"
                     ELSE n_overlap
    /\ n_local' = [n_local EXCEPT ![w] = n_file]
    /\ n_pc' = [n_pc EXCEPT ![w] = "loaded"]
    /\ n_calls' = n_calls + 1
    /\ UNCHANGED <<n_file, n_expect, notPag>>

\* the pop or the assignment, and save_pagination_config(pagination)
SetSave(w) ==
    /\ n_pc[w] = "loaded"
    /\ n_file' = updated_pagination(n_local[w], n_args[w].config_filename,
                                    n_args[w].pagination_settings)
    /\ n_expect' = [n_expect EXCEPT ![n_args[w].config_filename] =
                       n_args[w].pagination_settings]
    /\ n_pc' = [n_pc EXCEPT ![w] = "ready"]
    /\ UNCHANGED <<n_args, n_local, n_calls, n_overlap, notPag>>

PagNext == \E w \in Sessions : SetLoad(w) \/ SetSave(w)

(***************************************************************************)
(* Specifications                                                          *)
(***************************************************************************)
CanonInit == CanonStart /\ DedupIdle /\ CapIdle /\ InferIdle /\ CollIdle
             /\ GdeltIdle /\ PipeIdle /\ SessIdle /\ MergeIdle /\ FileIdle
             /\ SiteIdle /\ PagIdle
DedupInit == CanonIdle /\ DedupStart /\ CapIdle /\ InferIdle /\ CollIdle
             /\ GdeltIdle /\ PipeIdle /\ SessIdle /\ MergeIdle /\ FileIdle
             /\ SiteIdle /\ PagIdle
CapInit   == CanonIdle /\ DedupIdle /\ CapStart /\ InferIdle /\ CollIdle
             /\ GdeltIdle /\ PipeIdle /\ SessIdle /\ MergeIdle /\ FileIdle
             /\ SiteIdle /\ PagIdle
InferInit == CanonIdle /\ DedupIdle /\ CapIdle /\ InferStart /\ CollIdle
             /\ GdeltIdle /\ PipeIdle /\ SessIdle /\ MergeIdle /\ FileIdle
             /\ SiteIdle /\ PagIdle
CollInit  == CanonIdle /\ DedupIdle /\ CapIdle /\ InferIdle /\ CollStart
             /\ GdeltIdle /\ PipeIdle /\ SessIdle /\ MergeIdle /\ FileIdle
             /\ SiteIdle /\ PagIdle
GdeltInit == CanonIdle /\ DedupIdle /\ CapIdle /\ InferIdle /\ CollIdle
             /\ GdeltStart /\ PipeIdle /\ SessIdle /\ MergeIdle /\ FileIdle
             /\ SiteIdle /\ PagIdle
PipeInit  == CanonIdle /\ DedupIdle /\ CapIdle /\ InferIdle /\ CollIdle
             /\ GdeltIdle /\ PipeStart /\ SessIdle /\ MergeIdle /\ FileIdle
             /\ SiteIdle /\ PagIdle
SessInit  == CanonIdle /\ DedupIdle /\ CapIdle /\ InferIdle /\ CollIdle
             /\ GdeltIdle /\ PipeIdle /\ SessStart /\ MergeIdle /\ FileIdle
             /\ SiteIdle /\ PagIdle
MergeInit == CanonIdle /\ DedupIdle /\ CapIdle /\ InferIdle /\ CollIdle
             /\ GdeltIdle /\ PipeIdle /\ SessIdle /\ MergeStart /\ FileIdle
             /\ SiteIdle /\ PagIdle
FileInit == CanonIdle /\ DedupIdle /\ CapIdle /\ InferIdle /\ CollIdle
             /\ GdeltIdle /\ PipeIdle /\ SessIdle /\ MergeIdle /\ FileStart
             /\ SiteIdle /\ PagIdle
SiteInit == CanonIdle /\ DedupIdle /\ CapIdle /\ InferIdle /\ CollIdle
             /\ GdeltIdle /\ PipeIdle /\ SessIdle /\ MergeIdle /\ FileIdle
             /\ SiteStart /\ PagIdle
PagInit   == CanonIdle /\ DedupIdle /\ CapIdle /\ InferIdle /\ CollIdle
             /\ GdeltIdle /\ PipeIdle /\ SessIdle /\ MergeIdle /\ FileIdle
             /\ SiteIdle /\ PagStart

SpecCanon == CanonInit /\ [][CanonNext]_vars
SpecDedup == DedupInit /\ [][DedupNext]_vars
SpecCap   == CapInit /\ [][CapNext]_vars
SpecInfer == InferInit /\ [][InferNext]_vars
SpecColl  == CollInit /\ [][CollNext]_vars
\* gdelt_artlist_rolling is one sequential call: an iteration that can run
\* does run
SpecGdelt == GdeltInit /\ [][GdeltNext]_vars
SpecGdeltLive == SpecGdelt /\ WF_vars(GdeltNext)
SpecPipe  == PipeInit /\ [][PipeNext]_vars
SpecSess  == SessInit /\ [][SessNext]_vars
SpecMerge == MergeInit /\ [][MergeNext]_vars
SpecFile  == FileInit /\ [][FileNext]_vars
SpecSite  == SiteInit /\ [][SiteNext]_vars
SpecPag   == PagInit /\ [][PagNext]_vars

(***************************************************************************)
(* Claims                                                                  *)
(***************************************************************************)
\* subsequence of s at the indices in I, in increasing order
RECURSIVE AtIndices(_, _, _)
AtIndices(s0, I0, i0) ==
    Eval3(LAMBDA s, I, i :
        IF i > Len(s) THEN <<>>
        ELSE (IF i \in I THEN <<s[i]>> ELSE <<>>) \o AtIndices(s, I, i + 1),
      s0, I0, i0)

\* the identity key as the specification states it
IdentityKey(r) == lower(strip(r.title)) \o <<"|">> \o r.url

FirstOccurrences(rows) ==
    {i \in DOMAIN rows : \A j \in 1..(i - 1) : IdentityKey(rows[j]) # IdentityKey(rows[i])}

\* C3: dedup(records) is the subsequence of the first record of each identity
\* key: no two output records share a key, every input key occurs in the
\* output, and the kept records are in input order.
C3_DedupFirstOccurrence ==
    d_pc \in {"once", "twice"} =>
        /\ \A i, j \in DOMAIN d_once :
              i # j => IdentityKey(d_once[i]) # IdentityKey(d_once[j])
        /\ {IdentityKey(r) : r \in Range(d_rows)} = {IdentityKey(r) : r \in Range(d_once)}
        /\ d_once = AtIndices(d_rows, FirstOccurrences(d_rows), 1)

\* three rows, two of them different records with one key: the first is kept
C3_Witness ==
    /\ d_pc = "once"
    /\ Len(d_rows) = 3 /\ Len(d_once) = 2
    /\ \E i, j \in DOMAIN d_rows :
          i < j /\ d_rows[i] # d_rows[j] /\ IdentityKey(d_rows[i]) = IdentityKey(d_rows[j])
             /\ d_rows[i] \in Range(d_once) /\ d_rows[j] \notin Range(d_once)

\* C4: dedup(dedup(L)) = dedup(L) as a sequence, for every record list L
C4_DedupIdempotent == d_pc = "twice" => d_twice = d_once

C4_Witness ==
    d_pc = "twice" /\ Len(d_rows) = 3 /\ Len(d_once) = 2 /\ d_twice = d_once

\* the timestamp a row carries: a datetime, or a string that parses to one
TimestampOf(r) == parse_any_datetime(r.published_utc)
HasTimestamp(r) == TimestampOf(r) # NoPub

\* the UTC instant of local midnight starting day d in the reference timezone
MidnightUtc(d) == LocalToUtc(d, 0)

Timestamped(rows) == SelectSeq(rows, HasTimestamp)
Dateless(rows)    == SelectSeq(rows, LAMBDA r : ~HasTimestamp(r))

\* C5: cap keeps a record with a timestamp iff its instant lies between local
\* midnight starting start_date (inclusive) and local midnight starting
\* end_date + 1 day (exclusive), i.e. its local date is in [start_date, end_date].
C5_CapInclusiveWindow ==
    k_pc = "done" =>
        LET inWindow(r) == /\ MidnightUtc(k_start) <= TimestampOf(r).t
                           /\ TimestampOf(r).t < MidnightUtc(k_end + 1)
            expected    == SelectSeq(Timestamped(k_rows), inWindow)
        IN  Timestamped(k_out) =
                [i \in DOMAIN expected |->
                    [expected[i] EXCEPT !.published_utc = Dt(TimestampOf(expected[i]).t, "utc")]]

\* a window ending in summer time: the row at local midnight starting end_date
\* is kept, the row at local midnight starting end_date + 1 is dropped
C5_Witness ==
    /\ k_pc = "done" /\ k_end = LastDay /\ k_start = LastDay /\ Len(k_rows) = 2
    /\ k_rows[1].published_utc = Dt(MidnightUtc(k_end), "utc")
    /\ k_rows[2].published_utc = Dt(MidnightUtc(k_end + 1), "utc")
    /\ k_out = <<k_rows[1]>>

\* C10 as stated: no flag exists, so every call is the default call and the
\* filter returns no record whose timestamp is absent or unparseable.
C10_DatelessDroppedByDefault ==
    k_pc = "done" => \A i \in DOMAIN k_out : HasTimestamp(k_out[i])

\* C10 amended: the policy is fixed per source file, with no flag: the filter
\* of src/old_files returns no dateless record, the filter of src/pp.py returns
\* every dateless record of its input, in order.
C10_DatelessPolicyPerFile ==
    k_pc = "done" =>
        /\ k_variant = "old" => Dateless(k_out) = <<>>
        /\ k_variant = "pp" => Dateless(k_out) = Dateless(k_rows)

C10_Witness ==
    /\ k_pc = "done" /\ k_variant = "pp" /\ Len(k_rows) = 2
    /\ k_rows[1].published_utc = NoPub
    /\ k_rows[2].published_utc = StrPub(<<"n/a">>)
    /\ k_out = k_rows

\* C9: canonicalize(canonicalize(u)) == canonicalize(u) for every URL u
C9_CanonIdempotent == c_pc = "twice" => c_twice = c_once

\* mapping[rule] of a mapping that has an entry for the rule
MappingField(mapping, rule) ==
    mapping[CHOOSE i \in DOMAIN mapping : mapping[i].rule = rule].field

\* the grouped input of C8: g1 holds only absolute URLs, g2 only ISO calendar
\* dates, g3 only title strings (not blank, no URL, no date in them)
C8_Case ==
    /\ Len(i_grouped) = 3
    /\ i_grouped[1].vals # <<>>
    /\ \A v \in Range(i_grouped[1].vals) : looks_like_url(v)
    /\ i_grouped[2].vals # <<>>
    /\ \A v \in Range(i_grouped[2].vals) : Len(v) = 1 /\ v[1] \in IsoValidToks
    /\ i_grouped[3].vals # <<>>
    /\ \A v \in Range(i_grouped[3].vals) :
          strip(v) # <<>> /\ ~looks_like_url(v) /\ parse_date_string(v) = None

C8_Mapped == i_pc \in {"mapped", "done"} /\ C8_Case

\* C8 as stated: for a group of absolute URLs, a group of ISO dates and a group
\* of short title strings such as "Title One", "Title Two", inference assigns
\* url to the first group, date to the second and title to the third.
C8_InferUrlDateTitle ==
    C8_Mapped =>
        /\ MappingField(i_mapping, "g1") = "url"
        /\ MappingField(i_mapping, "g2") = "date"
        /\ MappingField(i_mapping, "g3") = "title"

\* C8 amended: inference assigns url to the group of absolute URLs, date to
\* the group of ISO dates and, to the group of title strings, title when their
\* average length exceeds 10 characters and other when it does not; the
\* 9-character titles "Title One", "Title Two" are mapped to other.
C8_InferTitleByLength ==
    C8_Mapped =>
        /\ MappingField(i_mapping, "g1") = "url"
        /\ MappingField(i_mapping, "g2") = "date"
        /\ MappingField(i_mapping, "g3") =
              IF SumLen(i_grouped[3].vals) > 10 * Len(i_grouped[3].vals)
              THEN "title" ELSE "other"
        /\ i_grouped[3].vals = <<TitleOne, TitleTwo>> =>
              MappingField(i_mapping, "g3") = "other"

C8_Witness ==
    /\ i_pc = "done"
    /\ i_grouped = <<[rule |-> "g1", vals |-> <<UrlA1, UrlA2>>],
                     [rule |-> "g2", vals |-> << <<"2024-01-01">>, <<"2024-01-02">> >>],
                     [rule |-> "g3", vals |-> <<TitleOne, TitleTwo>>]>>
    /\ i_mapping = <<[rule |-> "g1", field |-> "url"],
                     [rule |-> "g2", field |-> "date"],
                     [rule |-> "g3", field |-> "other"]>>
    /\ Len(i_items) = 2 /\ i_items[1].title = None

\* the items assembled from page number n of the site
PageItems(n) ==
    Eval1(LAMBDA grouped :
        assemble_items_from_grouped(grouped, ActiveMapping(grouped, p_mapping)),
      FilterRules(PageAt(p_site, p_rest, n).grouped, p_selected_rule_names))

\* the oldest date among the items, NoDate when none has a date
OldestDate(items) ==
    LET days == {IsoDay(items[i].date) : i \in {j \in DOMAIN items : items[j].date # None}}
    IN  IF days = {} THEN NoDate ELSE CHOOSE d \in days : \A e \in days : d <= e

RECURSIVE SumSeq(_)
SumSeq(s) == IF s = <<>> THEN 0 ELSE s[1] + SumSeq(Tail(s))

\* the page number of the k-th page of the run and the items it added
PageNo(k) == p_start_page + k - 1
AddedBy(k) ==
    SubSeq(collected, SumSeq(SubSeq(p_added, 1, k - 1)) + 1, SumSeq(SubSeq(p_added, 1, k)))

IsOld(day) ==
    /\ CutoffDt(p_cutoff_date_iso) # NoDate
    /\ day # NoDate
    /\ day < CutoffDt(p_cutoff_date_iso)

\* the k-th page is the last one fetched, it is counted and its items are
\* in the result (an item whose url was seen before by its first occurrence)
StoppedAfter(k) ==
    /\ p_pc = "done"
    /\ Len(p_fetched) = k
    /\ pages_scraped = k
    /\ \A it \in Range(PageItems(PageNo(k))) :
          \E c \in Range(collected) :
             c = it \/ (it.url # None /\ it.url # <<>> /\ c.url = it.url)

\* collection went on after the k-th page
WentOnAfter(k) == p_pc # "loop" => Len(p_fetched) > k

C7_Scenario ==
    /\ p_site = <<CollPage1, CollPage2, CollPage3>>
    /\ p_start_page = 1
    /\ p_max_pages = 10
    /\ p_cutoff_date_iso = <<"2024-03-01">>

\* C7 as stated: with a cutoff configured the collector stops right after the
\* first page whose oldest parseable date is strictly earlier than the cutoff
\* (the page is included and counted, no later page is fetched); a page whose
\* oldest date is on or after the cutoff does not stop collection; pages
\* dated 2024-03-10, 2024-03-05, 2024-02-20 with cutoff 2024-03-01 and
\* max_pages 10 give pages_scraped == 3.
C7_StopAfterFirstOldPage ==
    /\ \A k \in 1..pages_scraped :
          /\ IsOld(OldestDate(PageItems(PageNo(k)))) => StoppedAfter(k)
          /\ ( /\ OldestDate(PageItems(PageNo(k))) # NoDate
               /\ ~IsOld(OldestDate(PageItems(PageNo(k))))
               /\ k < p_max_pages ) => WentOnAfter(k)
    /\ C7_Scenario /\ p_pc = "done" => pages_scraped = 3

\* C7 amended: the date that decides is the oldest parseable date among the
\* items the page adds to the result (items whose url was already seen are
\* skipped and their dates do not count).  The collector stops right after the
\* first page whose oldest such date is strictly earlier than the cutoff: the
\* page is included and counted and no later page is fetched; a page whose
\* oldest such date is on or after the cutoff does not stop collection; the
\* scenario gives pages_scraped == 3.
C7_StopAfterFirstOldCollectedPage ==
    /\ \A k \in 1..pages_scraped :
          /\ IsOld(OldestDate(AddedBy(k))) => StoppedAfter(k)
          /\ ( /\ OldestDate(AddedBy(k)) # NoDate
               /\ ~IsOld(OldestDate(AddedBy(k)))
               /\ k < p_max_pages ) => WentOnAfter(k)
    /\ C7_Scenario /\ p_pc = "done" => pages_scraped = 3 /\ p_fetched = <<1, 2, 3>>

C7_Witness ==
    /\ C7_Scenario
    /\ p_pc = "done"
    /\ pages_scraped = 3
    /\ Len(collected) = 3
    /\ IsOld(OldestDate(AddedBy(3)))

(***************************************************************************)
(* C6: the GDELT rolling aggregator terminates.  Against the API that      *)
(* answers every request with exactly max_per_call (>= 1) articles of      *)
(* strictly decreasing seendate later than the window start, the loop goes *)
(* on only while the accumulated count is at most the safety ceiling, it   *)
(* stops with the warning in the iteration in which the count first        *)
(* exceeds the ceiling, and the function returns: every call ends.         *)
(***************************************************************************)
\* the last two events are the warning and the done event
WarnedAndDone ==
    /\ Len(g_events) >= 2
    /\ g_events[Len(g_events) - 1].event = "warn"
    /\ g_events[Len(g_events)].event = "done"

\* the call ended in the iteration in which the count first exceeded the ceiling
StoppedAtCeiling ==
    /\ Len(results) = batch_idx * max_per_call
    /\ Len(results) > ResultCeiling
    /\ Len(results) - max_per_call <= ResultCeiling
    /\ WarnedAndDone

C6_WhileRunning ==
    /\ g_pc \in {"loop", "done"}
    /\ g_pc = "loop" => Len(results) <= ResultCeiling
    /\ g_pc = "done" => StoppedAtCeiling

C6_GdeltTerminates ==
    /\ [](g_api = "mock" => C6_WhileRunning)
    /\ (g_api = "mock") ~> (g_pc = "done")

C6_Witness ==
    /\ g_api = "mock" /\ max_per_call >= 1
    /\ g_pc = "done"
    /\ StoppedAtCeiling

(***************************************************************************)
(* C1: after a run with day window [start_date, end_date], every record of *)
(* the final merged result set that carries a timestamp has a local date   *)
(* of the reference timezone within the window, whichever producer made    *)
(* it.                                                                     *)
(***************************************************************************)
InRunWindow(r) ==
    /\ MidnightUtc(m_start_d) <= TimestampOf(r).t
    /\ TimestampOf(r).t < MidnightUtc(m_end_d + 1)

C1_FinalWithinWindow ==
    m_pc = "done" =>
        \A i \in DOMAIN rows_all : HasTimestamp(rows_all[i]) => InRunWindow(rows_all[i])

(***************************************************************************)
(* C2: the url of every record is canonical when the deduplicator compares *)
(* it, for every producer: no two records of the final result have titles  *)
(* that differ only by letter case and urls that differ only by a tracking *)
(* query parameter.                                                        *)
(***************************************************************************)
SameButCaseAndTracking(r1, r2) ==
    /\ lower(r1.title) = lower(r2.title)
    /\ canonicalize_url(r1.url) = canonicalize_url(r2.url)

C2_CanonicalBeforeDedup ==
    m_pc = "done" =>
        /\ \A i \in DOMAIN rows_all : rows_all[i].url = canonicalize_url(rows_all[i].url)
        /\ \A i, j \in DOMAIN rows_all :
               i < j => ~SameButCaseAndTracking(rows_all[i], rows_all[j])

(***************************************************************************)
(* C11: a record whose title is empty or null is deduplicated without      *)
(* error.  A run never ends in an exception of dedup_rows, whatever items  *)
(* the trained extractors assemble (null title or null url for a missing   *)
(* position), and no two records of its result have an empty or null title *)
(* and the same url.                                                       *)
(***************************************************************************)
EmptyTitle(r) == r.title = None \/ strip(r.title) = <<>>

C11_NullTitleDeduplicated ==
    /\ m_pc # "raised"
    /\ m_pc = "done" =>
           \A i, j \in DOMAIN rows_all :
               (i < j /\ EmptyTitle(rows_all[i]) /\ EmptyTitle(rows_all[j]))
                   => rows_all[i].url # rows_all[j].url

(***************************************************************************)
(* C12: whenever a field mapping is applied to assemble items (preview,    *)
(* collection, a saved config replayed by a scrape), every rule id carries *)
(* the caller's choice for it, and a rule whose choice is "auto" carries   *)
(* its inferred field, after any sequence of train, edit, confirm,         *)
(* collect, save and scrape steps.  The choices are those of the           *)
(* confirmation when the mapping was confirmed, else those shown when the  *)
(* mapping was applied or saved.                                           *)
(***************************************************************************)
CarriedField(a, r) == MappingGet(a.mapping, r, "<no field>")

ChosenField(a, r) ==
    LET choice == MappingGet(a.choices, r, "auto")
    IN  IF choice = "auto" THEN MappingGet(a.inferred, r, "<not inferred>") ELSE choice

C12_OverrideTakesPrecedence ==
    t_applied.by # "none" =>
        \A r \in RuleIds(t_applied.grouped) :
            CarriedField(t_applied, r) = ChosenField(t_applied, r)

(***************************************************************************)
(* C13: if the k-th GDELT API call fails, gdelt_artlist_rolling raises     *)
(* nothing, issues no further call, emits an error event, and returns the  *)
(* day-capped, deduplicated records of batches 1..k-1.                     *)
(***************************************************************************)
\* the rows of the articles of the answers before the k-th
RECURSIVE RowsBefore(_)
RowsBefore(k) ==
    IF k <= 1 THEN <<>>
    ELSE RowsBefore(k - 1) \o BatchRows(g_resps[k - 1].articles)

EventsOf(kind) == {i \in DOMAIN g_events : g_events[i].event = kind}

\* the last request failed
LastCallFailed == g_resps # <<>> /\ ~g_resps[Len(g_resps)].ok

C13_GdeltCallFails ==
    LastCallFailed =>
        LET k == Len(g_resps)
        IN  /\ g_pc = "done"
            /\ Len(g_calls) = k
            /\ EventsOf("error") = {Len(g_events) - 1}
            /\ g_events[Len(g_events)] = [event |-> "done", total |-> Len(g_ret)]
            /\ \A i \in 1..(k - 1) : g_resps[i].ok
            /\ g_ret = dedup_rows(cap_by_date(RowsBefore(k), g_start_d, g_end_d))

\* the third call fails after two full batches that hold the same article
C13_Witness ==
    /\ LastCallFailed /\ Len(g_resps) = 3
    /\ g_pc = "done"
    /\ Len(g_ret) < Len(results)
    /\ g_ret # <<>>

(***************************************************************************)
(* C14: a safety limit that stops processing is reported.                  *)
(***************************************************************************)
\* the GDELT loop ended because the accumulated count exceeded the ceiling:
\* the last batch was full and its oldest seendate is later than the window
\* start, so that the loop got as far as the ceiling test
StoppedByCeiling ==
    /\ g_pc = "done"
    /\ over_ceiling(results)
    /\ g_resps[Len(g_resps)].ok
    /\ Len(g_resps[Len(g_resps)].articles) = max_per_call
    /\ Oldest(SeenDates(g_resps[Len(g_resps)].articles)) # NoPub
    /\ Oldest(SeenDates(g_resps[Len(g_resps)].articles)).t > start_dt_utc

\* the collector ended because max_pages pages were scraped and no other stop
\* condition was met: the last page was fetched, gave items, and the oldest
\* date it added is not before the cutoff
StoppedByMaxPages ==
    /\ p_pc = "done"
    /\ pages_scraped = p_max_pages
    /\ Len(p_fetched) = pages_scraped
    /\ PageItems(PageNo(pages_scraped)) # <<>>
    /\ ~IsOld(OldestDate(AddedBy(pages_scraped)))

HasWarning(events) == \E i \in DOMAIN events : events[i].event = "warn"

\* C14: whenever a safety limit stops processing (the GDELT result ceiling,
\* or the pagination max-page cap with no other stop condition met) an
\* explicit warning event is reported and the partial results accumulated so
\* far are returned.
C14_LimitIsReported ==
    /\ StoppedByCeiling =>
          /\ HasWarning(g_events)
          /\ g_ret = dedup_rows(cap_by_date(results, g_start_d, g_end_d))
    /\ StoppedByMaxPages =>
          /\ HasWarning(collector_events)
          /\ pages_scraped = Len(p_added)

\* the half of C14 the code keeps: the GDELT ceiling is reported
C14_CeilingIsReported ==
    StoppedByCeiling =>
          /\ HasWarning(g_events)
          /\ g_ret = dedup_rows(cap_by_date(results, g_start_d, g_end_d))

C14_CeilingWitness == StoppedByCeiling

(***************************************************************************)
(* C15: the order in which the per-source lists are merged                 *)
(***************************************************************************)
KeysOf(rows) == {row_key(rows[i]) : i \in DOMAIN rows}

\* C15 as stated: deduplicating and day-capping A followed by B yields the
\* same set of records as B followed by A, and deduplicating each source
\* first and then the union yields the same set as deduplicating the union
\* once.
C15_MergeOrderIndependent ==
    /\ o_pc \in {"orders", "done"} => Range(o_ab) = Range(o_ba)
    /\ o_pc = "done" => Range(o_each) = Range(o_once)

\* C15 amended: the two orders yield records with the same set of identity
\* keys (of the records that share a key the first in merge order is kept,
\* so the records themselves may differ), and deduplicating each source
\* first and then the union yields the same set of records as deduplicating
\* the union once.
C15_MergeOrderSameKeys ==
    /\ o_pc \in {"orders", "done"} => KeysOf(o_ab) = KeysOf(o_ba)
    /\ o_pc = "done" => Range(o_each) = Range(o_once)

\* both orders ran on two sources that hold different records of one key
C15_Witness ==
    /\ o_pc = "done"
    /\ o_a = <<Row(<<"X">>, UrlX, InWindow, <<"a.com">>)>>
    /\ o_b = <<Row(<<"x">>, UrlX, InWindow, <<"b.com">>),
               Row(<<"x">>, UrlX, OutWindow, <<"b.com">>)>>
    /\ o_ab # o_ba
    /\ Len(o_once) = 1

(***************************************************************************)
(* C16: atomic_write_json under concurrent writers and readers             *)
(***************************************************************************)
\* C16: for every interleaving of concurrent readers and concurrent writer
\* calls on the same path, the file at path always holds one complete JSON
\* document produced by a single call (the previous content or one writer's
\* full content, never a partial or mixed document), and every writer call
\* completes without error.
C16_AtomicWrite ==
    f_pc # <<>> =>
        /\ f_dir.path # 0
        /\ IsDocument(f_inodes[f_dir.path])
        /\ \A w \in Writers : f_err[w] = "" /\ f_pc[w] # "raised"

\* the same with a single writer call in progress at any time
C16_OneWriterAtATime ==
    (f_pc # <<>> /\ \A w \in Writers : f_pc[w] \in {"start", "done"}) =>
        /\ f_dir.path # 0
        /\ IsDocument(f_inodes[f_dir.path])
        /\ \A w \in Writers : f_err[w] = ""

(***************************************************************************)
(* C17: the rolling aggregator against an API that holds a set of articles *)
(***************************************************************************)
\* the article is among the accumulated rows
Accumulated(a) == \E i \in DOMAIN results : results[i].url = ArticleUrl(a)

\* C17: given an upstream that answers each call with the newest
\* max_per_call articles whose seendate lies in [window start, cursor] and
\* that holds no more articles than the ceiling, every such article is in
\* the accumulated set when the loop ends, including articles that share the
\* seendate second of the oldest article of a full batch or whose seendate
\* equals the window start.
C17_AllHitsIncluded ==
    (g_api = "store" /\ g_pc # "loop") =>
        /\ g_pc = "done"
        /\ \A a \in Range(g_store) : Accumulated(a)

\* what the loop does deliver: an article is accumulated unless it shares
\* its seendate second with the oldest article of a full batch before it in
\* the store
C17_AllButTiesIncluded ==
    (g_api = "store" /\ g_pc # "loop") =>
        /\ g_pc = "done"
        /\ \A i \in DOMAIN g_store :
              \/ Accumulated(g_store[i])
              \/ \E j \in 1..(i - 1) : g_store[j].seendate = g_store[i].seendate

(***************************************************************************)
(* C18: the end-of-window cursor of the GDELT rolling loop                 *)
(***************************************************************************)
\* the startdatetime sent is the window start on every call
SameStart == \A k \in DOMAIN g_calls : g_calls[k].startdatetime = start_dt_utc

\* the oldest seendate of the k-th batch is no later than the enddatetime of
\* the k-th request
BatchWithinRequest(k) ==
    /\ g_resps[k].ok
    /\ Oldest(SeenDates(g_resps[k].articles)) # NoPub
    /\ Oldest(SeenDates(g_resps[k].articles)).t <= g_calls[k].enddatetime

\* C18 as stated: for every sequence of upstream responses, the enddatetime
\* cursor of each API call after the first is strictly earlier than the
\* cursor of the preceding call, and the startdatetime sent is the same
\* window start on every call.
C18_CursorStrictlyDecreasing ==
    /\ \A k \in 2..Len(g_calls) : g_calls[k].enddatetime < g_calls[k - 1].enddatetime
    /\ SameStart

\* C18 amended: the cursor of a call is strictly earlier than the cursor of
\* the preceding call whenever the oldest seendate of the preceding batch is
\* no later than the enddatetime that was requested for it; the
\* startdatetime sent is the same window start on every call.
C18_CursorDecreasingWithinRequest ==
    /\ \A k \in 2..Len(g_calls) :
          BatchWithinRequest(k - 1) =>
              g_calls[k].enddatetime < g_calls[k - 1].enddatetime
    /\ SameStart

\* three calls to an upstream that keeps within the requested range
C18_Witness ==
    /\ g_api = "any"
    /\ Len(g_calls) = 3 /\ Len(g_resps) = 3
    /\ BatchWithinRequest(1) /\ BatchWithinRequest(2)
    /\ g_calls[3].enddatetime < g_calls[2].enddatetime

(***************************************************************************)
(* C19: the accumulated count and the ceiling                              *)
(***************************************************************************)
\* no call is issued while the accumulated count exceeds the ceiling: a call
\* is issued from the top of the loop only
NoCallOverCeiling ==
    /\ g_pc = "loop" => Len(results) <= ResultCeiling
    /\ \A i \in EventsOf("batch") : g_events[i].total <= ResultCeiling

\* every answer held at most max_per_call articles
AtMostPerCall == \A k \in DOMAIN g_resps : g_resps[k].ok => Len(g_resps[k].articles) <= max_per_call

\* C19 as stated: the loop never issues an API call while the accumulated
\* record count exceeds the ceiling; in every reachable state the accumulated
\* count is at most the ceiling + max_per_call, for any upstream behaviour.
C19_CountBounded ==
    /\ NoCallOverCeiling
    /\ g_pc # "idle" => Len(results) <= ResultCeiling + max_per_call

\* C19 amended: the loop never issues an API call while the accumulated
\* record count exceeds the ceiling, for any upstream behaviour; the
\* accumulated count is at most the ceiling + max_per_call for any upstream
\* that answers no call with more than max_per_call articles.
C19_CountBoundedPerCall ==
    /\ NoCallOverCeiling
    /\ (g_pc # "idle" /\ AtMostPerCall) => Len(results) <= ResultCeiling + max_per_call

\* a call to an arbitrary upstream ended above the ceiling
C19_Witness ==
    /\ g_api = "any" /\ max_per_call = 2
    /\ g_pc = "done"
    /\ AtMostPerCall
    /\ Len(results) > ResultCeiling
    /\ HasWarning(g_events)

(***************************************************************************)
(* C20: a further call only after a full batch                             *)
(***************************************************************************)
\* the k-th answer held fewer than max_per_call articles
ShortAnswer(k) == g_resps[k].ok /\ Len(g_resps[k].articles) < max_per_call

\* C20: the loop issues a further API call only after a batch that
\* contained at least max_per_call articles: a call that returns zero
\* articles or fewer than max_per_call articles is the last call, and the
\* records of a short non-empty batch are included in the accumulated set
\* before the loop stops.
C20_FurtherCallAfterFullBatch ==
    /\ Len(g_calls) = Len(g_resps)
    /\ \A k \in 1..(Len(g_calls) - 1) :
          g_resps[k].ok /\ Len(g_resps[k].articles) >= max_per_call
    /\ \A k \in DOMAIN g_resps :
          ShortAnswer(k) =>
              /\ k = Len(g_resps)
              /\ g_pc = "done"
              /\ results = RowsBefore(k + 1)

\* the second call returned a short batch of one record
C20_Witness ==
    /\ max_per_call = 2
    /\ Len(g_resps) = 2 /\ ShortAnswer(2)
    /\ Len(BatchRows(g_resps[2].articles)) = 1
    /\ g_pc = "done"
    /\ Len(results) = 3

(***************************************************************************)
(* C21: a full batch whose oldest seendate cannot be determined            *)
(***************************************************************************)
\* the k-th answer was a full batch in which no article has a seendate, or
\* in which the seendate of some article does not parse
OldestUndetermined(k) ==
    /\ g_resps[k].ok
    /\ g_resps[k].articles # <<>>
    /\ ~short_batch(g_resps[k].articles, max_per_call)
    /\ \/ SeenDates(g_resps[k].articles) = <<>>
       \/ \E i \in DOMAIN SeenDates(g_resps[k].articles) :
             SeenDates(g_resps[k].articles)[i] = NoPub

\* C21: when the oldest timestamp of a full batch cannot be determined (no
\* article has a seendate, or some article's seendate does not parse) the
\* loop stops without raising, issues no further call, and the function
\* returns the day-capped, deduplicated accumulated records, that batch
\* included.
C21_UndeterminedOldestStops ==
    \A k \in DOMAIN g_resps :
        OldestUndetermined(k) =>
            /\ k = Len(g_resps)
            /\ g_pc = "done"
            /\ g_ret = dedup_rows(cap_by_date(RowsBefore(k + 1), g_start_d, g_end_d))

(***************************************************************************)
(* C22: the events of a run of the GDELT aggregator                        *)
(***************************************************************************)
BatchEvents == SelectSeq(g_events, LAMBDA e : e.event = "batch")
OkAnswers   == SelectSeq(g_resps, LAMBDA r : r.ok)

\* one batch event per answer received, numbered 1, 2, 3, ... in call order
BatchEventPerAnswer ==
    /\ Len(BatchEvents) = Len(OkAnswers)
    /\ \A i \in DOMAIN BatchEvents :
          /\ BatchEvents[i].batch = i
          /\ BatchEvents[i].fetched = Len(OkAnswers[i].articles)

\* exactly one done event, the last event, with the length of the list returned
OneDoneEventLast ==
    /\ EventsOf("done") = {Len(g_events)}
    /\ g_events[Len(g_events)].total = Len(g_ret)

\* C22: in every run of the aggregator with an observer, one batch event is
\* emitted per successfully received API response with batch indices 1, 2,
\* 3, ... in call order, and exactly one done event is emitted, as the last
\* event of the run and carrying the length of the returned list, also when
\* the run ended through an error or a warning event.
C22_EventsOfARun ==
    /\ BatchEventPerAnswer
    /\ g_pc = "loop" => EventsOf("done") = {}
    /\ g_pc \in {"done", "raised"} => OneDoneEventLast

\* the same for the runs that return
C22_EventsOfAReturningRun ==
    /\ BatchEventPerAnswer
    /\ g_pc = "loop" => EventsOf("done") = {}
    /\ g_pc = "done" => OneDoneEventLast

(***************************************************************************)
(* C23: a page whose fetch fails or that yields no item                    *)
(***************************************************************************)
\* the fetch of the k-th page of the run failed, or it yielded no item
FetchFailed(k) == ~PageAt(p_site, p_rest, PageNo(k)).ok
NoItems(k)     == ~FetchFailed(k) /\ PageItems(PageNo(k)) = <<>>

\* the pages among the first k whose fetch succeeded
FetchedOk(k) == {j \in 1..k : ~FetchFailed(j)}

\* the collector stopped at the k-th page, which added nothing
StoppedAtPage(k) ==
    /\ p_pc = "done"
    /\ Len(p_fetched) = k
    /\ pages_scraped = Cardinality(FetchedOk(k))
    /\ Len(collected) = SumSeq(SubSeq(p_added, 1, k - 1))

\* C23: the collector stops without raising at the first page whose fetch
\* fails or that yields zero assembled items (for any grouped result,
\* including an empty one, and whether or not a mapping was supplied),
\* fetches no later page, and returns the items accumulated from earlier
\* pages together with pages_scraped equal to the number of pages whose
\* fetch succeeded.
C23_StopsAtFailedOrEmptyPage ==
    \A k \in 1..Len(p_fetched) :
        (FetchFailed(k) \/ NoItems(k)) => StoppedAtPage(k)

\* the same when a mapping is supplied or the page has at least one rule
C23_StopsUnlessNothingToInfer ==
    \A k \in 1..Len(p_fetched) :
        /\ (FetchFailed(k) \/ NoItems(k)) => p_pc = "raised" \/ StoppedAtPage(k)
        /\ p_pc = "raised" =>
              /\ p_mapping = <<>>
              /\ FilterRules(PageAt(p_site, p_rest, PageNo(Len(p_fetched))).grouped,
                             p_selected_rule_names) = <<>>

(***************************************************************************)
(* C24: a cutoff and no date on any page                                   *)
(***************************************************************************)
\* the page numbers of the run; the site answers every page after its first
\* Len(p_site) pages alike
RunPages == p_start_page..(p_start_page + p_max_pages - 1)
DistinctPages == {n \in RunPages : n <= Len(p_site) + 1 \/ n = p_start_page}

\* every fetch succeeds with at least one item and no item has a date
AllPagesUndated ==
    \A n \in DistinctPages :
        /\ PageAt(p_site, p_rest, n).ok
        /\ \E items \in {PageItems(n)} :
              /\ items # <<>>
              /\ \A it \in Range(items) : it.date = None

\* the pages fetched so far are the first pages of the run, in order
FetchedInOrder == p_fetched = [i \in 1..Len(p_fetched) |-> p_start_page + i - 1]

\* C24: with a cutoff configured, if no item on any page has a parseable
\* date and every page fetch succeeds with at least one assembled item, the
\* cutoff rule never stops the collector and it scrapes all max_pages pages,
\* start_page through start_page + max_pages - 1 in increasing order, each
\* once.
C24_NoDatesNoCutoff ==
    (p_pc # "idle" /\ CutoffDt(p_cutoff_date_iso) # NoDate /\ AllPagesUndated) =>
        /\ p_pc \in {"loop", "done"}
        /\ FetchedInOrder
        /\ pages_scraped = Len(p_fetched)
        /\ p_pc = "done" => Len(p_fetched) = p_max_pages

C24_Witness ==
    /\ p_pc = "done"
    /\ CutoffDt(p_cutoff_date_iso) # NoDate
    /\ AllPagesUndated
    /\ p_max_pages = 10
    /\ pages_scraped = 10
    /\ ~has_any_dates

(***************************************************************************)
(* C25: the urls of the accumulated items                                  *)
(***************************************************************************)
HasUrl(it) == it.url # None /\ it.url # <<>>

\* the items of the first k pages of the run, in page order and item order
RECURSIVE ItemsOfPages(_)
ItemsOfPages(k) ==
    IF k = 0 THEN <<>> ELSE ItemsOfPages(k - 1) \o PageItems(PageNo(k))

\* the items without a url and the first item of every url
FirstOfUrl(items) ==
    {i \in DOMAIN items :
        HasUrl(items[i]) => \A j \in 1..(i - 1) : items[j].url # items[i].url}

\* C25: after any number of pages the accumulated list contains no two
\* items with the same non-empty url; each kept item is the first occurrence
\* of its url in page order and item order, items without a url are all
\* kept, and the seen-url set equals the set of non-empty urls of the
\* accumulated items.
C25_FirstOccurrenceOfUrl ==
    p_pc # "idle" =>
        /\ \A i, j \in DOMAIN collected :
              (i # j /\ HasUrl(collected[i])) => collected[i].url # collected[j].url
        /\ \E all \in {ItemsOfPages(pages_scraped)} :
              collected = AtIndices(all, FirstOfUrl(all), 1)
        /\ seen_urls = {collected[i].url : i \in {j \in DOMAIN collected : HasUrl(collected[j])}}

\* three pages: a url of the first page is listed again, and two items have
\* no url
C25_Witness ==
    /\ p_pc = "done"
    /\ pages_scraped >= 3
    /\ Len(collected) < Len(ItemsOfPages(pages_scraped))
    /\ Cardinality({i \in DOMAIN collected : ~HasUrl(collected[i])}) >= 2
    /\ Cardinality(seen_urls) >= 2

\* the items of s_out that came from a feed
RssItems == SelectSeq(s_out, LAMBDA it : it.via = "rss")

\* scrape_html_listing was called
ListingRan == s_listing # <<>>

\* the feeds loop of scrape_site is over
FeedsLoopOver == s_pc \in {"html", "dates", "done"}

\* the items the feeds fetched so far produce, a feed that fails counting
\* for none
RECURSIVE ItemsOfFeeds(_)
ItemsOfFeeds(k) ==
    IF k = 0 THEN <<>>
    ELSE ItemsOfFeeds(k - 1)
         \o (IF FeedAnswer(s_site, s_fetched[k]).kind = "raises" THEN <<>>
             ELSE scrape_rss(s_fetched[k], FeedAnswer(s_site, s_fetched[k])))

\* C26: scrape_site fetches at most the first 6 discovered feeds, in
\* discovery order; the HTML listing runs if and only if those feeds together
\* produced no item; a feed whose fetch fails counts for no item and the
\* loop goes on to the next feed.
C26_FeedsFirstThenFallback ==
    /\ Len(s_fetched) <= 6
    /\ Len(s_fetched) <= Len(s_feeds)
    /\ s_fetched = Head_n(s_feeds, Len(s_fetched))
    /\ RssItems = ItemsOfFeeds(Len(s_fetched))
    /\ FeedsLoopOver =>
          /\ Len(s_fetched) = 6 \/ s_fetched = s_feeds
          /\ s_pc # "html" => (ListingRan <=> RssItems = <<>>)
    /\ ~FeedsLoopOver => ~ListingRan

\* more than 6 feeds were discovered, one of the 6 fetched failed and a later
\* one was fetched all the same, none produced an item, and the listing ran
\* and produced the items returned
C26_Witness ==
    /\ s_pc = "done"
    /\ Len(s_feeds) > 6 /\ Len(s_fetched) = 6
    /\ \E k \in 1..5 : FeedAnswer(s_site, s_fetched[k]).kind = "raises"
    /\ ListingRan /\ s_out # <<>> /\ RssItems = <<>>

\* scrape_html_listing returned the records of the futures
ListingReturned ==
    s_pc = "done" /\ ListingRan /\ s_listing.kind = "ok"

\* the i-th record is the record of the i-th link of the capped list
RecordOfLink(i) ==
    /\ s_items[i].title = s_links[i].text
    /\ s_items[i].url = s_links[i].url
    /\ s_items[i].published_utc = s_links[i].pub

\* C27: whatever the order in which the concurrent date fetches finish, the
\* HTML listing returns one record per capped candidate link, in the order
\* the links appear on the listing page.
C27_ListingFollowsSourceOrder ==
    ListingReturned =>
        /\ Len(s_items) = Len(s_links)
        /\ \A i \in DOMAIN s_items : RecordOfLink(i)

\* what holds of the order-free content: one record per capped candidate
\* link, a failed date fetch giving a record without a date
C27_ListingOneRecordPerLink ==
    ListingReturned =>
        /\ Len(s_items) = Len(s_links)
        /\ \A i \in DOMAIN s_links :
              \E j \in DOMAIN s_items :
                  /\ s_items[j].url = s_links[i].url
                  /\ s_items[j].title = s_links[i].text
                  /\ s_items[j].published_utc = s_links[i].pub

\* the first root and its first six conventional feed paths
FirstRoot == roots_of(s_base)[1]
FirstSix == Head_n(conventional_feeds(FirstRoot), 6)

\* the candidates the link tags of the roots advertise
Advertised ==
    UNION {Range(advertised_feeds(roots_of(s_base)[i], s_resps[i].links)) :
             i \in {j \in DOMAIN roots_of(s_base) : s_resps[j].kind = "ok"}}

IsHttp(u) == StartsWith(u, <<"http", ":", "/", "/">>)

FetchedAreFirstSix ==
    /\ Len(s_fetched) <= 6
    /\ s_fetched = Head_n(FirstSix, Len(s_fetched))
    /\ FeedsLoopOver => s_fetched = FirstSix

\* C28: the feeds scrape_site fetches are the first six conventional paths
\* of the first root; a feed advertised by a link tag of the root page, and
\* any http:// candidate, is never fetched.
C28_OnlyConventionalNeverAdvertised ==
    /\ FetchedAreFirstSix
    /\ \A k \in DOMAIN s_fetched :
          s_fetched[k] \notin Advertised /\ ~IsHttp(s_fetched[k])

\* C28 as it holds: the feeds fetched are the first six conventional paths
\* of the first root; an advertised feed is fetched only when its url is one
\* of these six, and an http:// candidate only when the base has that scheme.
C28_OnlyConventionalOfFirstRoot ==
    /\ FetchedAreFirstSix
    /\ \A k \in DOMAIN s_fetched :
          /\ s_fetched[k] \in Advertised => s_fetched[k] \in Range(FirstSix)
          /\ IsHttp(s_fetched[k]) => IsHttp(s_base)

\* an advertised feed that is a conventional path was fetched from a base
\* with the http scheme, and another advertised feed was not
C28_Witness ==
    /\ s_pc = "done"
    /\ IsHttp(s_base)
    /\ \E k \in DOMAIN s_fetched : s_fetched[k] \in Advertised
    /\ Len(s_feeds) > 6

\* an advertised feed that is no conventional path, discovered and left out
C28_WitnessLeftOut ==
    /\ s_pc = "done"
    /\ \E f \in Advertised : f \notin Range(s_fetched) /\ f \in Range(s_feeds)

(***************************************************************************)
(* C29: pages of duplicates                                                *)
(***************************************************************************)
\* the k-th page of the run has items, and every one of them has the url of
\* an item collected from an earlier page
AllDuplicates(k) ==
    /\ k > 1
    /\ \E items \in {PageItems(PageNo(k))} :
          /\ items # <<>>
          /\ \A it \in Range(items) :
                /\ HasUrl(it)
                /\ \E j \in 1..SumSeq(SubSeq(p_added, 1, k - 1)) :
                      collected[j].url = it.url

\* the site answers every page number of the run alike, with at least one
\* item
SameContent ==
    /\ \A n \in DistinctPages :
          PageAt(p_site, p_rest, n) = PageAt(p_site, p_rest, p_start_page)
    /\ PageAt(p_site, p_rest, p_start_page).ok
    /\ PageItems(p_start_page) # <<>>

\* the items of one page, an item whose url an earlier item has left out
OnceOf(items) == AtIndices(items, FirstOfUrl(items), 1)

\* a page of duplicates adds nothing and is not the last page fetched,
\* unless it is the last page of the range; stated of the latest page
\* scraped, which every page of a run is in some state, and nothing this
\* says of a page changes once a later page is scraped
DuplicatePagesPass ==
    \A k \in {pages_scraped} \ {0} :
        \/ /\ p_added[k] = 0
           /\ k < p_max_pages => WentOnAfter(k)
        \/ ~AllDuplicates(k)

FetchedMaxPagesOnce(first) ==
    /\ Len(p_fetched) = p_max_pages
    /\ pages_scraped = p_max_pages
    /\ collected = OnceOf(first)

\* C29: a page whose items are all duplicates of urls seen earlier neither
\* stops the collection nor triggers the cutoff; so a site that returns the
\* same content for every page number is fetched max_pages times,
\* pages_scraped == max_pages, and its items are accumulated once.
C29_SameContentEveryPage ==
    p_pc # "idle" =>
        /\ DuplicatePagesPass
        /\ (SameContent /\ p_pc = "done") =>
              FetchedMaxPagesOnce(PageItems(p_start_page))

\* C29 as it holds: the same, for a site whose items all have a url and
\* whose first page does not reach the cutoff itself.
C29_SameUrlsEveryPage ==
    p_pc # "idle" =>
        /\ DuplicatePagesPass
        /\ (SameContent /\ p_pc # "loop") =>
              \E first \in {PageItems(p_start_page)} :
                  ( /\ \A it \in Range(first) : HasUrl(it)
                    /\ ~IsOld(OldestDate(OnceOf(first))) ) =>
                        p_pc = "done" /\ FetchedMaxPagesOnce(first)

\* the same dated page was fetched twice with a cutoff configured: the second
\* time all its items were duplicates, and the run went on to its last page
C29_Witness ==
    /\ p_pc = "done"
    /\ SameContent
    /\ CutoffDt(p_cutoff_date_iso) # NoDate
    /\ pages_scraped = p_max_pages
    /\ AllDuplicates(2)
    /\ OldestDate(PageItems(PageNo(2))) # NoDate
    /\ Len(collected) = 1

(***************************************************************************)
(* C30: the entries of pagination.json                                     *)
(***************************************************************************)
\* every stored name has the entry the completed calls have set for it, or
\* the entry it had before them
EntriesAsSet ==
    \A g \in StoredNames : get_pagination_for_config(n_file, g) = n_expect[g]

\* C30: set_pagination_for_config(f, s) changes only the entry of config f:
\* afterwards get_pagination_for_config(f) returns s (no entry when s is
\* None) and every other entry is what it was, for every sequence of calls
\* and also when two sessions update different config filenames concurrently.
C30_OnlyEntryOfConfigChanges ==
    (n_pc # <<>> /\ n_overlap # "same") => EntriesAsSet

\* what holds: the same, for calls that are made one at a time
C30_OneCallAtATime ==
    (n_pc # <<>> /\ n_overlap = "none") => EntriesAsSet

=============================================================================
